---- MODULE Spec2Model ----
(***************************************************************************)
(* State-machine model of the thoughtstream-log journal application:       *)
(* the IndexedDB record store (JournalDatabase, lib/journalDB) and the     *)
(* export dialog (components/ExportModal.tsx).                             *)
(*                                                                         *)
(* Dates are modelled by their instant (an integer), entry ids by small    *)
(* naturals standing for distinct key strings, and an optional field       *)
(* (audioBlob?, transcript?, summary?) by a sequence of length 0 or 1.     *)
(***************************************************************************)
EXTENDS Naturals, Integers, Sequences, FiniteSets, TLC

\* ------------------------------------------------------------------ bounds
MaxIds == 2
MaxTime == 2
MaxCalls == 2
MaxLoads == 1
MaxSelected == 4
MaxRuns == 2
MaxPending == 1
MaxCreated == 1
MaxTags == 3
MaxPreviews == 1
MaxListed == 1

Ids == 1..MaxIds
Times == 1..MaxTime
Slots == 1..MaxCalls

\* Length of Date.prototype.toISOString(), the text JSON.stringify gives a Date.
IsoLength == 24

\* deriveKey and encryptData of ExportModal.tsx.
KdfIterations == 100000
EnvelopeIterations == 100000
SaltLength == 16
IvLength == 12
KeyLength == 256

VARIABLES
  \* --- lib/journalDB
  db,           \* JournalDatabase.db: "null" or "open"
  objectStore,  \* the records of the IndexedDB object store 'entries'
  calls,        \* the journalDB call of each caller: its position and result
  openQueue,    \* callers whose indexedDB.open is pending, in request order
  txQueue,      \* callers whose transaction is created, in creation order
  lastWrite,    \* history: the write that resolved most recently
  scenario,     \* history: the resolved writes since the store was empty
  \* --- components/ExportModal.tsx
  isOpen,            \* useState(false)
  entries,           \* useState<JournalEntry[]>([])
  selectedEntries,   \* useState<string[]>([]): the selected ids, in order
  exportOptions,     \* useState<ExportOptions>
  passphrase,        \* useState('')
  confirmPassphrase, \* useState('')
  loading,           \* useState(false)
  loadsPending,      \* loadEntries calls awaiting journalDB.getAll()
  exportJob,         \* the handleExport call in progress, with its closure
  toast,             \* title of the toast the dialog's last step raised
  output,            \* what the dialog's last step wrote out, if anything
  preview,           \* useState(''): the text of the preview pane
  previewJobs,       \* generatePreview calls awaiting blobToBase64
  \* --- the pages: components/JournalEntry (the form) and Timeline
  page,               \* "entry", "timeline" or "settings": the page that is loaded
  pageLoad,           \* the page's mount effect: its position and its call
  editingEntry,       \* useState<JournalEntry | null>(null) of the form
  isSaving,           \* useState(false) of the form
  saveJob,            \* the handleSave call in progress, with its closure
  timelineEntries,    \* useState<JournalEntry[]>([]) of the Timeline
  summarizingEntries, \* useState<Set<string>>(new Set()) of the Timeline
  summaryJobs,        \* the handleSummarizeEntry calls in progress, by id
  deleteJob,          \* the handleDelete call in progress
  usedIds,            \* history: the ids crypto.randomUUID() has given
  \* --- components/TagInput
  tagInput,           \* the tags prop with useState inputValue, showSuggestions
  \* --- the browser
  localStorage,       \* the item OPENAI_API_KEY: <<>> or <<key>>
  requests,           \* history: the requests the latest AI call made with fetch
  \* --- the Settings page
  settings,           \* its useState values and the position of its handlers
  \* --- functions applied on their own
  args,              \* the arguments the function is applied to
  returned           \* what its applications returned, in order

dbVars == <<db, objectStore, calls, openQueue, txQueue, lastWrite, scenario>>
exportVars == <<isOpen, entries, selectedEntries, exportOptions, passphrase,
                confirmPassphrase, loading, loadsPending, exportJob, toast,
                output, preview, previewJobs>>
exportState == <<isOpen, entries, selectedEntries, exportOptions, passphrase,
                 confirmPassphrase, loading, loadsPending, exportJob, output,
                 preview, previewJobs>>
journalVars == <<page, pageLoad, editingEntry, isSaving, saveJob,
                 timelineEntries, summarizingEntries, summaryJobs, deleteJob,
                 usedIds>>
fnVars == <<args, returned>>
widgetVars == <<tagInput, localStorage, requests, settings>>
vars == <<dbVars, exportVars, journalVars, fnVars, widgetVars>>

Range(seq) == {seq[i] : i \in 1..Len(seq)}

\* ------------------------------------------------------------ data model
\* A JournalEntry as JournalEntry.handleSave builds it.
NewEntry(id, content, timestamp, createdAt, audioBlob) ==
  [id |-> id, content |-> content, tags |-> <<>>, timestamp |-> timestamp,
   audioBlob |-> audioBlob, transcript |-> <<>>, summary |-> <<>>,
   createdAt |-> createdAt, updatedAt |-> createdAt]

\* The entries the callers are given here: every id, display timestamp and
\* creation time; an entry created at an odd instant is a text note without
\* audio, one created at an even instant a voice note (a 3-byte blob)
\* without text.
ContentAt(createdAt) == IF createdAt % 2 = 1 THEN "note" ELSE ""

AudioAt(createdAt) == IF createdAt % 2 = 1 THEN <<>> ELSE <<3>>

EntryInputs ==
  {NewEntry(i, ContentAt(k), t, k, AudioAt(k)) : i \in Ids, t \in Times, k \in Times}

\* --------------------------------------------------- the IndexedDB store
\* A copy through JSON text instead: a Blob does not survive it.
JsonClone(entry) == [entry EXCEPT !.audioBlob = <<>>]

\* The structured clone IndexedDB stores and returns: strings, arrays, Dates
\* (the same instant) and Blobs are copied field by field.
StructuredClone(entry) ==
  [id |-> entry.id, content |-> entry.content, tags |-> entry.tags,
   timestamp |-> entry.timestamp, audioBlob |-> entry.audioBlob,
   transcript |-> entry.transcript, summary |-> entry.summary,
   createdAt |-> entry.createdAt, updatedAt |-> entry.updatedAt]

\* A store whose records are not keyed by 'id': the record is only added.
StorePutAdd(store, entry) == store \cup {StructuredClone(entry)}

\* IDBObjectStore.put on the store created with keyPath 'id': the record of
\* that key is replaced, or the record is added.
StorePut(store, entry) ==
  {r \in store : r.id # entry.id} \cup {StructuredClone(entry)}

\* A delete of the key range up to id instead of the key id.
StoreDeleteUpTo(store, id) == {r \in store : r.id > id}

\* IDBObjectStore.delete(id): succeeds whether or not the key is present.
StoreDelete(store, id) == {r \in store : r.id # id}

\* A clear that removes the records of the lowest key only.
StoreClearFirst(store) ==
  {r \in store : \E s \in store : s.id < r.id}

\* IDBObjectStore.clear().
StoreClear(store) == {}

\* IDBObjectStore.get(id), then `request.result || null`: <<>> is null.
StoreGet(store, id) ==
  IF \E r \in store : r.id = id
    THEN <<StructuredClone(CHOOSE r \in store : r.id = id)>>
    ELSE <<>>

\* Order of the 'timestamp' index: by index key, then by primary key.
IndexBefore(a, b) ==
  \/ a.timestamp < b.timestamp
  \/ a.timestamp = b.timestamp /\ a.id < b.id

RECURSIVE IndexGetAll(_)
\* IDBIndex.getAll() on the 'timestamp' index: every record, in index order.
IndexGetAll(store) ==
  IF store = {} THEN <<>>
  ELSE LET first == CHOOSE r \in store : \A s \in store \ {r} : IndexBefore(r, s)
       IN <<first>> \o IndexGetAll(store \ {first})

\* The comparator of getAll's sort: b.timestamp - a.timestamp.
CompareTimestampDesc(a, b) == b.timestamp - a.timestamp

\* The reversed comparator: b.getTime() - a.getTime().
CompareDescending(a, b) == b - a

\* The comparator of getStats' sort: a.getTime() - b.getTime().
CompareAscending(a, b) == a - b

\* Array.prototype.sort is stable: x goes before the first of the elements
\* that compare greater than it (their positions are in after), else last.
InsertSorted(sorted, x, after) ==
  LET pos == IF after = {} THEN Len(sorted) + 1
             ELSE CHOOSE i \in after : \A j \in after : i <= j
  IN SubSeq(sorted, 1, pos - 1) \o <<x>> \o SubSeq(sorted, pos, Len(sorted))

RECURSIVE SortByTimestampDesc(_)
\* entries.sort((a, b) => new Date(b.timestamp).getTime() - new Date(a.timestamp).getTime())
SortByTimestampDesc(seq) ==
  IF seq = <<>> THEN <<>>
  ELSE LET sorted == SortByTimestampDesc(SubSeq(seq, 1, Len(seq) - 1))
           x == seq[Len(seq)]
       IN InsertSorted(sorted, x,
            {i \in 1..Len(sorted) : CompareTimestampDesc(sorted[i], x) > 0})

RECURSIVE SortAscending(_)
\* dates.sort((a, b) => a.getTime() - b.getTime())
SortAscending(seq) ==
  IF seq = <<>> THEN <<>>
  ELSE LET sorted == SortAscending(SubSeq(seq, 1, Len(seq) - 1))
           x == seq[Len(seq)]
       IN InsertSorted(sorted, x,
            {i \in 1..Len(sorted) : CompareAscending(sorted[i], x) > 0})

\* getAll without its sort: the records in the index's ascending order.
GetAllResultUnsorted(store) == IndexGetAll(store)

\* JournalDatabase.getAll's onsuccess: the index's records, sorted.
GetAllResult(store) == SortByTimestampDesc(IndexGetAll(store))

\* ------------------------------------------------------------ getStats
RECURSIVE SumLengths(_)
SumLengths(strings) ==
  IF strings = <<>> THEN 0
  ELSE Len(strings[1]) + 2 + SumLengths(Tail(strings))

\* Length of JSON.stringify of an array of strings: ["a","b"].
JsonArrayLength(strings) ==
  2 + SumLengths(strings) + (IF Len(strings) > 1 THEN Len(strings) - 1 ELSE 0)

\* Length of JSON.stringify(summary).
JsonSummaryLength(summary) ==
  Len("{\"highlights\":") + JsonArrayLength(summary.highlights)
  + Len(",\"decisions\":") + JsonArrayLength(summary.decisions)
  + Len(",\"actions\":") + JsonArrayLength(summary.actions)
  + Len(",\"risks\":") + JsonArrayLength(summary.risks)
  + Len(",\"mood\":\"") + Len(summary.mood) + Len("\"}")

\* JSON.stringify(entry).length: absent optional fields are left out, a Date
\* is its ISO text and a Blob is {}.
JsonStringifyLength(entry) ==
  Len("{\"id\":\"") + Len(ToString(entry.id)) + Len("\"")
  + Len(",\"content\":\"") + Len(entry.content) + Len("\"")
  + Len(",\"tags\":") + JsonArrayLength(entry.tags)
  + Len(",\"timestamp\":\"") + IsoLength + Len("\"")
  + (IF entry.audioBlob # <<>> THEN Len(",\"audioBlob\":{}") ELSE 0)
  + (IF entry.transcript # <<>>
       THEN Len(",\"transcript\":\"") + Len(entry.transcript[1]) + Len("\"") ELSE 0)
  + (IF entry.summary # <<>>
       THEN Len(",\"summary\":") + JsonSummaryLength(entry.summary[1]) ELSE 0)
  + Len(",\"createdAt\":\"") + IsoLength + Len("\"")
  + Len(",\"updatedAt\":\"") + IsoLength + Len("\"}")

\* The reduce callback of getStats: JSON size plus the blob's size.
EntrySize(entry) ==
  JsonStringifyLength(entry)
  + (IF entry.audioBlob # <<>> THEN entry.audioBlob[1] ELSE 0)

RECURSIVE TotalStorageSize(_)
\* entries.reduce((size, entry) => size + entrySize, 0)
TotalStorageSize(list) ==
  IF list = <<>> THEN 0
  ELSE TotalStorageSize(SubSeq(list, 1, Len(list) - 1))
       + EntrySize(list[Len(list)])

\* entries.map(e => new Date(e.createdAt))
CreatedAtOf(list) == [i \in 1..Len(list) |-> list[i].createdAt]

\* getStats giving the index of the last entry as the count.
ComputeStatsLastIndex(list) ==
  IF Len(list) = 0
    THEN [totalEntries |-> 0, totalStorageSize |-> 0,
          oldestEntry |-> <<>>, newestEntry |-> <<>>]
    ELSE LET timestamps == SortAscending(CreatedAtOf(list))
         IN [totalEntries |-> Len(timestamps) - 1,
             totalStorageSize |-> TotalStorageSize(list),
             oldestEntry |-> <<timestamps[1]>>,
             newestEntry |-> <<timestamps[Len(timestamps)]>>]

\* JournalDatabase.getStats, after its getAll has resolved with `entries`.
ComputeStats(list) ==
  IF Len(list) = 0
    THEN [totalEntries |-> 0, totalStorageSize |-> 0,
          oldestEntry |-> <<>>, newestEntry |-> <<>>]
    ELSE LET timestamps == SortAscending(CreatedAtOf(list))
         IN [totalEntries |-> Len(list),
             totalStorageSize |-> TotalStorageSize(list),
             oldestEntry |-> <<timestamps[1]>>,
             newestEntry |-> <<timestamps[Len(timestamps)]>>]

\* ------------------------------------------------- journalDB calls
NoWrite == [op |-> "none", entry |-> <<>>, id |-> <<>>]

NoScenario == [phase |-> "saving", saved |-> {}]

\* A caller's call: pc is its position ("idle", "opening" while init's open
\* request is pending, "queued" while its request is pending, "resolved" or
\* "rejected" once its promise has settled).  opens, reqs and errors count
\* the open requests and store requests it issued and the request errors it
\* met; entries and stats hold the resolved value.  History: pred is the
\* write that had resolved last when a read was issued with no other call in
\* flight, before is the store's content when the call settled.
IdleCall ==
  [pc |-> "idle", op |-> "none", entry |-> <<>>, id |-> <<>>,
   opens |-> 0, reqs |-> 0, errors |-> 0, cause |-> "none",
   entries |-> <<>>, stats |-> <<>>, pred |-> NoWrite, before |-> {}]

InFlight(c) == calls[c].pc \in {"opening", "queued"}

PredOf(c, op) ==
  IF op \in {"getAll", "getById", "getStats"}
     /\ \A d \in Slots \ {c} : ~InFlight(d)
    THEN lastWrite
    ELSE NoWrite

\* A new call takes the first free caller slot.
Free(c) ==
  /\ calls[c].pc = "idle"
  /\ \A d \in Slots : d < c => calls[d].pc # "idle"

\* The head of every method: `if (!this.db) await this.init()`, then, in the
\* promise executor, the transaction and its one request.  With no
\* connection the call first issues indexedDB.open and waits for it.
Begin(c, op, entry, id) ==
  /\ IF db = "null"
       THEN /\ calls' = [calls EXCEPT ![c] =
                 [IdleCall EXCEPT !.pc = "opening", !.op = op, !.entry = entry,
                                  !.id = id, !.opens = 1, !.pred = PredOf(c, op)]]
            /\ openQueue' = Append(openQueue, c)
            /\ UNCHANGED txQueue
       ELSE /\ calls' = [calls EXCEPT ![c] =
                 [IdleCall EXCEPT !.pc = "queued", !.op = op, !.entry = entry,
                                  !.id = id, !.reqs = 1, !.pred = PredOf(c, op)]]
            /\ txQueue' = Append(txQueue, c)
            /\ UNCHANGED openQueue
  /\ UNCHANGED <<db, objectStore, lastWrite, scenario>>

\* journalDB.save(entry)
Save(c, entry) ==
  /\ Free(c)
  /\ Begin(c, "save", <<entry>>, <<>>)

\* journalDB.update(entry): `return this.save(entry)`
Update(c, entry) ==
  /\ Free(c)
  /\ Save(c, entry)

\* journalDB.getAll()
GetAll(c) ==
  /\ Free(c)
  /\ Begin(c, "getAll", <<>>, <<>>)

\* journalDB.getById(id)
GetById(c, id) ==
  /\ Free(c)
  /\ Begin(c, "getById", <<>>, <<id>>)

\* journalDB.delete(id)
Delete(c, id) ==
  /\ Free(c)
  /\ Begin(c, "delete", <<>>, <<id>>)

\* journalDB.getStats(): `await this.getAll()` first
GetStats(c) ==
  /\ Free(c)
  /\ Begin(c, "getStats", <<>>, <<>>)

\* journalDB.clear()
Clear(c) ==
  /\ Free(c)
  /\ Begin(c, "clear", <<>>, <<>>)

\* reject(request.error): the promise of the call settles as rejected.
Rejected(call, cause) ==
  [call EXCEPT !.pc = "rejected", !.errors = @ + 1, !.cause = cause,
               !.before = objectStore]

\* The open requests on one database are served in the order they were made.
IsOpening(c) ==
  /\ openQueue # <<>>
  /\ Head(openQueue) = c
  /\ calls[c].pc = "opening"

\* init(): request.onsuccess sets this.db and resolves; the method goes on
\* to create its transaction and request.
OpenSuccess(c) ==
  /\ IsOpening(c)
  /\ db' = "open"
  /\ calls' = [calls EXCEPT ![c].pc = "queued", ![c].reqs = @ + 1]
  /\ openQueue' = Tail(openQueue)
  /\ txQueue' = Append(txQueue, c)
  /\ UNCHANGED <<objectStore, lastWrite, scenario>>

\* init(): request.onerror rejects, and `await this.init()` rethrows.
OpenError(c) ==
  /\ IsOpening(c)
  /\ calls' = [calls EXCEPT ![c] = Rejected(calls[c], "open")]
  /\ openQueue' = Tail(openQueue)
  /\ UNCHANGED <<db, objectStore, txQueue, lastWrite, scenario>>

\* The storage engine runs the transactions on 'entries' in the order of
\* their creation.
IsNext(c, op) ==
  /\ txQueue # <<>>
  /\ Head(txQueue) = c
  /\ calls[c].pc = "queued"
  /\ calls[c].op = op

\* resolve(value) in a request.onsuccess handler.
Resolve(c, result, stats) ==
  /\ calls' = [calls EXCEPT ![c].pc = "resolved", ![c].entries = result,
                            ![c].stats = stats, ![c].before = objectStore]
  /\ txQueue' = Tail(txQueue)
  /\ UNCHANGED <<db, openQueue>>

\* save resolving without waiting for its put: the record is not written.
SaveSuccessUnwritten(c) ==
  /\ IsNext(c, "save")
  /\ lastWrite' = [op |-> "save", entry |-> calls[c].entry, id |-> <<>>]
  /\ Resolve(c, <<>>, <<>>)
  /\ UNCHANGED <<objectStore, scenario>>

\* save: store.put(entry) succeeds, request.onsuccess resolves.
SaveSuccess(c) ==
  /\ IsNext(c, "save")
  /\ objectStore' = StorePut(objectStore, calls[c].entry[1])
  /\ lastWrite' = [op |-> "save", entry |-> calls[c].entry, id |-> <<>>]
  /\ scenario' =
       IF scenario.phase = "saving"
         THEN [scenario EXCEPT !.saved = @ \cup {calls[c].entry[1].id}]
         ELSE [phase |-> "off", saved |-> {}]
  /\ Resolve(c, <<>>, <<>>)

\* getAll: index.getAll() succeeds, request.onsuccess sorts and resolves.
GetAllSuccess(c) ==
  /\ IsNext(c, "getAll")
  /\ Resolve(c, GetAllResult(objectStore), <<>>)
  /\ UNCHANGED <<objectStore, lastWrite, scenario>>

\* getById: store.get(id) succeeds, request.onsuccess resolves.
GetByIdSuccess(c) ==
  /\ IsNext(c, "getById")
  /\ Resolve(c, StoreGet(objectStore, calls[c].id[1]), <<>>)
  /\ UNCHANGED <<objectStore, lastWrite, scenario>>

\* delete: store.delete(id) succeeds, request.onsuccess resolves.
DeleteSuccess(c) ==
  /\ IsNext(c, "delete")
  /\ objectStore' = StoreDelete(objectStore, calls[c].id[1])
  /\ lastWrite' = [op |-> "delete", entry |-> <<>>, id |-> calls[c].id]
  /\ scenario' =
       IF scenario.phase = "saving" /\ calls[c].id[1] \in scenario.saved
         THEN [scenario EXCEPT !.phase = "deleted"]
         ELSE [phase |-> "off", saved |-> {}]
  /\ Resolve(c, <<>>, <<>>)

\* getStats: its getAll resolves and the aggregate is computed.
GetStatsSuccess(c) ==
  /\ IsNext(c, "getStats")
  /\ Resolve(c, <<>>, <<ComputeStats(GetAllResult(objectStore))>>)
  /\ UNCHANGED <<objectStore, lastWrite, scenario>>

\* clear: store.clear() succeeds, request.onsuccess resolves.
ClearSuccess(c) ==
  /\ IsNext(c, "clear")
  /\ objectStore' = StoreClear(objectStore)
  /\ lastWrite' = [op |-> "clear", entry |-> <<>>, id |-> <<>>]
  /\ scenario' = NoScenario
  /\ Resolve(c, <<>>, <<>>)

\* A store that issues the failed request once more before it gives up.
RequestErrorRetry(c) ==
  /\ txQueue # <<>>
  /\ Head(txQueue) = c
  /\ calls[c].pc = "queued"
  /\ IF calls[c].reqs < 2
       THEN calls' = [calls EXCEPT ![c].reqs = @ + 1, ![c].errors = @ + 1]
       ELSE calls' = [calls EXCEPT ![c] = Rejected(calls[c], "request")]
  /\ txQueue' = IF calls[c].reqs < 2 THEN Append(Tail(txQueue), c) ELSE Tail(txQueue)
  /\ UNCHANGED <<db, objectStore, openQueue, lastWrite, scenario>>

\* Any method: request.onerror rejects with request.error; nothing is
\* written.
RequestError(c) ==
  /\ txQueue # <<>>
  /\ Head(txQueue) = c
  /\ calls[c].pc = "queued"
  /\ calls' = [calls EXCEPT ![c] = Rejected(calls[c], "request")]
  /\ txQueue' = Tail(txQueue)
  /\ UNCHANGED <<db, objectStore, openQueue, lastWrite, scenario>>

\* The awaiting caller takes the settled result and goes on.
Return(c) ==
  /\ calls[c].pc \in {"resolved", "rejected"}
  /\ calls' = [calls EXCEPT ![c] = IdleCall]
  /\ UNCHANGED <<db, objectStore, openQueue, txQueue, lastWrite, scenario>>

\* The page is loaded anew (window.location.href = '/timeline' after an
\* update): a new JournalDatabase with db = null over the same database.
Reload ==
  /\ \A c \in Slots : calls[c].pc = "idle"
  /\ db = "open"
  /\ db' = "null"
  /\ UNCHANGED <<objectStore, calls, openQueue, txQueue, lastWrite, scenario>>

InitDB ==
  /\ db = "null"
  /\ objectStore = {}
  /\ calls = [c \in Slots |-> IdleCall]
  /\ openQueue = <<>>
  /\ txQueue = <<>>
  /\ lastWrite = NoWrite
  /\ scenario = NoScenario

\* ------------------------------------------------ strings and JSON text
\* The positions of the character ch in the string s.
IndicesOf(s, ch) == {i \in 1..Len(s) : SubSeq(s, i, i) = ch}

Least(set) == CHOOSE i \in set : \A j \in set : i <= j

RECURSIVE Split(_, _)
\* String.prototype.split on a one-character separator.
Split(s, ch) ==
  IF IndicesOf(s, ch) = {} THEN <<s>>
  ELSE LET i == Least(IndicesOf(s, ch))
       IN <<SubSeq(s, 1, i - 1)>> \o Split(SubSeq(s, i + 1, Len(s)), ch)

Whitespace == {" ", "\n", "\t", "\r"}

\* String.prototype.trim.
Trim(s) ==
  LET kept == {i \in 1..Len(s) : SubSeq(s, i, i) \notin Whitespace}
  IN IF kept = {} THEN ""
     ELSE SubSeq(s, Least(kept), CHOOSE i \in kept : \A j \in kept : j <= i)

RECURSIVE Join(_, _)
\* Array.prototype.join.
Join(strings, sep) ==
  IF strings = <<>> THEN ""
  ELSE IF Len(strings) = 1 THEN strings[1]
  ELSE strings[1] \o sep \o Join(Tail(strings), sep)

\* Array.prototype.slice(0, n).
Slice(seq, n) == SubSeq(seq, 1, IF Len(seq) < n THEN Len(seq) ELSE n)

\* String.prototype.includes.
Includes(s, sub) ==
  \E i \in 1..(Len(s) + 1) :
    i + Len(sub) - 1 <= Len(s) /\ SubSeq(s, i, i + Len(sub) - 1) = sub

\* JSON.stringify of a string without quotes, backslashes or control
\* characters.
JsonString(s) == "\"" \o s \o "\""

\* JSON.stringify(strings, null, 2) at the given indentation.
JsonStringArray(strings, indent) ==
  IF strings = <<>> THEN "[]"
  ELSE "[\n"
       \o Join([i \in 1..Len(strings) |-> indent \o "  " \o JsonString(strings[i])],
               ",\n")
       \o "\n" \o indent \o "]"

\* JSON.stringify(object, null, 2) at the given indentation; members holds
\* the <<key, text of the value>> pairs in insertion order.
JsonObject(members, indent) ==
  IF members = <<>> THEN "{}"
  ELSE "{\n"
       \o Join([i \in 1..Len(members) |->
                  indent \o "  " \o JsonString(members[i][1]) \o ": " \o members[i][2]],
               ",\n")
       \o "\n" \o indent \o "}"

\* JSON.stringify(summary, null, 2) at the given indentation.
JsonSummary(summary, indent) ==
  JsonObject(<< <<"highlights", JsonStringArray(summary.highlights, indent \o "  ")>>,
                <<"decisions", JsonStringArray(summary.decisions, indent \o "  ")>>,
                <<"actions", JsonStringArray(summary.actions, indent \o "  ")>>,
                <<"risks", JsonStringArray(summary.risks, indent \o "  ")>>,
                <<"mood", JsonString(summary.mood)>> >>, indent)

\* Date.prototype.toISOString of the instant t: day t of one month, at
\* midnight UTC.
ToISOString(t) == "2024-01-0" \o ToString(t) \o "T00:00:00.000Z"

\* ------------------------------------------------ ExportModal.tsx
Formats == {"json", "markdown", "text"}

\* What the user can type as a passphrase and as its confirmation.
Passphrases == {"", "pw"}

Confirmations == {"", "pw"}

NoJob ==
  [pc |-> "idle", action |-> "none", selected |-> <<>>, data |-> <<>>,
   options |-> [format |-> "json", includeAudio |-> FALSE,
                includeTags |-> TRUE, encrypt |-> FALSE],
   passphrase |-> "", content |-> <<>>]

\* useMemo: entries.filter(entry => selectedEntries.includes(entry.id))
SelectedEntriesData ==
  SelectSeq(entries, LAMBDA entry : entry.id \in Range(selectedEntries))

\* allEntries.map(e => e.id)
IdsIn(list) == [i \in 1..Len(list) |-> list[i].id]

\* The validation without its check of the selection.
ExportValidationPassphraseOnly(selected, options, pass, confirm) ==
  IF options.encrypt /\ (pass = "" \/ pass # confirm) THEN "passphrase"
  ELSE "ok"

\* The validation accepting any non-empty passphrase, confirmed or not.
ExportValidationUnconfirmed(selected, options, pass, confirm) ==
  IF Len(selected) = 0 THEN "empty"
  ELSE IF options.encrypt /\ pass = "" THEN "passphrase"
  ELSE "ok"

\* handleExport's validation: "empty" and "passphrase" return early.
ExportValidation(selected, options, pass, confirm) ==
  IF Len(selected) = 0 THEN "empty"
  ELSE IF options.encrypt /\ (pass = "" \/ pass # confirm) THEN "passphrase"
  ELSE "ok"

\* entry.content.split('.').slice(0, n).filter(h => h.trim())
Highlights(content, n) ==
  SelectSeq(Slice(Split(content, "."), n), LAMBDA h : Trim(h) # "")

\* blobToBase64: the text after the comma of the data URL of a blob of
\* blob[1] zero bytes.
BlobToBase64(blob) ==
  LET size == blob[1]
      quads == [i \in 1..(size \div 3) |-> "AAAA"]
  IN Join(quads, "") \o (CASE size % 3 = 0 -> ""
                           [] size % 3 = 1 -> "AA=="
                           [] size % 3 = 2 -> "AAA=")

\* The audio member taken from every entry that has a blob.
AudioOfAnyBlob(entry, options, failed) ==
  IF entry.audioBlob # <<>>
    THEN IF entry.id \in failed
           THEN <<"[Audio conversion failed]">>
           ELSE <<BlobToBase64(entry.audioBlob)>>
    ELSE <<>>

\* The audio member of an ExportData record: absent unless the option is set
\* and the entry has a blob; the placeholder when blobToBase64 was rejected.
AudioOf(entry, options, failed) ==
  IF options.includeAudio /\ entry.audioBlob # <<>>
    THEN IF entry.id \in failed
           THEN <<"[Audio conversion failed]">>
           ELSE <<BlobToBase64(entry.audioBlob)>>
    ELSE <<>>

\* The record with the entry's tags whatever the option says.
ExportDataOfAllTags(entry, options, failed) ==
  [date |-> Split(ToISOString(entry.timestamp), "T")[1],
   highlights |-> Highlights(entry.content, 5),
   tags |-> entry.tags,
   entry |-> entry.content,
   timestamp |-> ToISOString(entry.timestamp),
   transcript |-> IF entry.transcript # <<>> /\ entry.transcript[1] # ""
                    THEN entry.transcript ELSE <<>>,
   summary |-> entry.summary,
   audio |-> AudioOf(entry, options, failed)]

\* The ExportData record handleExport builds of one entry; failed holds the
\* ids whose blobToBase64 was rejected.
ExportDataOf(entry, options, failed) ==
  [date |-> Split(ToISOString(entry.timestamp), "T")[1],
   highlights |-> Highlights(entry.content, 5),
   tags |-> IF options.includeTags THEN entry.tags ELSE <<>>,
   entry |-> entry.content,
   timestamp |-> ToISOString(entry.timestamp),
   transcript |-> IF entry.transcript # <<>> /\ entry.transcript[1] # ""
                    THEN entry.transcript ELSE <<>>,
   summary |-> entry.summary,
   audio |-> AudioOf(entry, options, failed)]

\* JSON.stringify of one ExportData record inside the array.
JsonExportData(data) ==
  JsonObject(<< <<"date", JsonString(data.date)>>,
                <<"highlights", JsonStringArray(data.highlights, "    ")>>,
                <<"tags", JsonStringArray(data.tags, "    ")>>,
                <<"entry", JsonString(data.entry)>>,
                <<"timestamp", JsonString(data.timestamp)>> >>
             \o (IF data.transcript # <<>>
                   THEN << <<"transcript", JsonString(data.transcript[1])>> >>
                   ELSE <<>>)
             \o (IF data.summary # <<>>
                   THEN << <<"summary", JsonSummary(data.summary[1], "    ")>> >>
                   ELSE <<>>)
             \o (IF data.audio # <<>>
                   THEN << <<"audio", JsonString(data.audio[1])>> >>
                   ELSE <<>>),
             "  ")

\* case 'json': JSON.stringify(exportData, null, 2)
RenderJson(exportData) ==
  IF exportData = <<>> THEN "[]"
  ELSE "[\n"
       \o Join([i \in 1..Len(exportData) |-> "  " \o JsonExportData(exportData[i])],
               ",\n")
       \o "\n]"

\* The markdown text with the audio text itself in place of the marker.
MarkdownOfAudioText(data) ==
  "# " \o data.date \o "\n\n" \o data.entry
  \o (IF data.audio # <<>> THEN "\n\n" \o data.audio[1] ELSE "")
  \o "\n\n---\n"

\* The markdown text of one record.
MarkdownOf(data) ==
  "# " \o data.date \o "\n\n"
  \o (IF Len(data.tags) > 0
        THEN "**Tags:** " \o Join(data.tags, ", ") \o "\n\n" ELSE "")
  \o data.entry
  \o (IF data.transcript # <<>>
        THEN "\n\n**Transcript:** \"" \o data.transcript[1] \o "\"" ELSE "")
  \o (IF data.summary # <<>>
        THEN "\n\n**AI Summary:**\n- **Highlights:** "
             \o Join(data.summary[1].highlights, ", ")
             \o "\n- **Mood:** " \o data.summary[1].mood
             \o (IF Len(data.summary[1].actions) > 0
                   THEN "\n- **Actions:** " \o Join(data.summary[1].actions, ", ")
                   ELSE "")
        ELSE "")
  \o (IF data.audio # <<>> /\ data.audio[1] # ""
        THEN "\n\n[Audio data included]" ELSE "")
  \o "\n\n---\n"

\* case 'markdown'
RenderMarkdown(exportData) ==
  Join([i \in 1..Len(exportData) |-> MarkdownOf(exportData[i])], "\n")

\* The plain text of one record.
PlainTextOf(data) ==
  "Date: " \o data.date \o "\n"
  \o (IF Len(data.tags) > 0
        THEN "Tags: " \o Join(data.tags, ", ") \o "\n" ELSE "")
  \o "Content: " \o data.entry
  \o (IF data.transcript # <<>>
        THEN "\nTranscript: \"" \o data.transcript[1] \o "\"" ELSE "")
  \o (IF data.summary # <<>>
        THEN "\nSummary: " \o JsonSummary(data.summary[1], "") ELSE "")
  \o (IF data.audio # <<>> /\ data.audio[1] # ""
        THEN "\nAudio: [Base64 data included]" ELSE "")
  \o "\n\n"

\* case 'text'
RenderText(exportData) ==
  Join([i \in 1..Len(exportData) |-> PlainTextOf(exportData[i])], "\n")

\* The switch on the format.
Render(exportData, format) ==
  CASE format = "json" -> RenderJson(exportData)
    [] format = "markdown" -> RenderMarkdown(exportData)
    [] format = "text" -> RenderText(exportData)

\* The switch on exportOptions.format: the file suffix and the MIME type.
SuffixOf(format) ==
  CASE format = "json" -> ".json"
    [] format = "markdown" -> ".md"
    [] format = "text" -> ".txt"

MimeTypeOf(format) ==
  CASE format = "json" -> "application/json"
    [] format = "markdown" -> "text/markdown"
    [] format = "text" -> "text/plain"

\* new Date().toISOString().split('T')[0] on the day of the export.
ExportDay == Split(ToISOString(9), "T")[1]

\* `journal-export-${day}.json`, .md or .txt
FilenameOf(format) == "journal-export-" \o ExportDay \o SuffixOf(format)

EndsWith(s, suffix) ==
  Len(s) >= Len(suffix) /\ SubSeq(s, Len(s) - Len(suffix) + 1, Len(s)) = suffix

\* filename.replace(/\.(json|md|txt)$/, '.encrypted.json')
EncryptedFilename(filename) ==
  IF \E x \in {".json", ".md", ".txt"} : EndsWith(filename, x)
    THEN LET x == CHOOSE y \in {".json", ".md", ".txt"} : EndsWith(filename, y)
         IN SubSeq(filename, 1, Len(filename) - Len(x)) \o ".encrypted.json"
    ELSE filename

\* The serialized export: the records rendered in the chosen format.
PlainContent(data, options, failed) ==
  [encrypted |-> FALSE,
   format |-> options.format,
   records |-> [i \in 1..Len(data) |-> ExportDataOf(data[i], options, failed)],
   text |-> Render([i \in 1..Len(data) |-> ExportDataOf(data[i], options, failed)],
                   options.format),
   envelope |-> <<>>,
   filename |-> FilenameOf(options.format),
   mimeType |-> MimeTypeOf(options.format),
   key |-> ""]

\* ---- the Web Crypto primitives, as ideal functions
\* crypto.getRandomValues(new Uint8Array(n)): here every byte alike.
RandomBytes == {0, 255}

Salts == {[i \in 1..SaltLength |-> b] : b \in RandomBytes}

Ivs == {[i \in 1..IvLength |-> b] : b \in RandomBytes}

\* btoa(String.fromCharCode(...bytes)) and its inverse atob.
Btoa(bytes) == [base64 |-> bytes]

Atob(text) == text.base64

\* PBKDF2 with SHA-256 giving an AES-GCM key: the key is determined by, and
\* determines, the passphrase, the salt and the iteration count.
Pbkdf2(pass, salt, iterations) ==
  [name |-> "AES-GCM", length |-> KeyLength, hash |-> "SHA-256",
   passphrase |-> pass, salt |-> salt, iterations |-> iterations]

\* deriveKey(passphrase, salt)
DeriveKey(pass, salt) == Pbkdf2(pass, salt, KdfIterations)

\* crypto.subtle.encrypt({ name: 'AES-GCM', iv }, key, data): the ciphertext
\* with its tag opens under this key and iv only.
AesGcmEncrypt(key, iv, data) == [key |-> key, iv |-> iv, plaintext |-> data]

\* encryptData with the iteration count of the envelope taken for the salt's
\* length.
EncryptDataSaltLengthIterations(data, pass, salt, iv) ==
  [alg |-> "AES-GCM", kdf |-> "PBKDF2-SHA256", iterations |-> SaltLength,
   salt |-> Btoa(salt), iv |-> Btoa(iv),
   ciphertext |-> Btoa(AesGcmEncrypt(DeriveKey(pass, salt), iv, data)),
   format |-> "json"]

\* encryptData(data, passphrase) with the salt and iv it drew.
EncryptData(data, pass, salt, iv) ==
  [alg |-> "AES-GCM", kdf |-> "PBKDF2-SHA256", iterations |-> EnvelopeIterations,
   salt |-> Btoa(salt), iv |-> Btoa(iv),
   ciphertext |-> Btoa(AesGcmEncrypt(DeriveKey(pass, salt), iv, data)),
   format |-> "json"]

\* The decryptor of the envelope: the key is derived from the passphrase
\* with the stored salt and iteration count, and the ciphertext opened with
\* the stored iv; a key or iv that is not the one used fails authentication.
DecryptData(envelope, pass) ==
  LET key == Pbkdf2(pass, Atob(envelope.salt), envelope.iterations)
      sealed == Atob(envelope.ciphertext)
  IN IF sealed.key = key /\ sealed.iv = Atob(envelope.iv)
       THEN [ok |-> TRUE, plaintext |-> sealed.plaintext]
       ELSE [ok |-> FALSE, plaintext |-> "OperationError"]

\* The encryption branch leaving encryptData's own format tag in place.
EncryptedContentJsonTag(content, pass, salt, iv) ==
  [encrypted |-> TRUE,
   format |-> content.format,
   records |-> <<>>,
   text |-> "",
   envelope |-> <<EncryptData(content.text, pass, salt, iv)>>,
   filename |-> EncryptedFilename(content.filename),
   mimeType |-> "application/json",
   key |-> pass]

\* The encryption branch of handleExport: the envelope, tagged with the
\* format of the options, is the content; file name and MIME type follow.
EncryptedContent(content, pass, salt, iv) ==
  [encrypted |-> TRUE,
   format |-> content.format,
   records |-> <<>>,
   text |-> "",
   envelope |-> <<[EncryptData(content.text, pass, salt, iv)
                     EXCEPT !.format = content.format]>>,
   filename |-> EncryptedFilename(content.filename),
   mimeType |-> "application/json",
   key |-> pass]

\* The ExportData record generatePreview builds of one entry.
PreviewDataOf(entry, options, failed) ==
  [ExportDataOf(entry, options, failed)
     EXCEPT !.highlights = Highlights(entry.content, 3)]

\* generatePreview appending its suffix from 3 selected entries on.
PreviewTextSuffixFromThree(selected, options, pass, failed) ==
  IF Len(selected) = 0 THEN "No entries selected for export"
  ELSE LET previewEntries == Slice(selected, 3)
           exportData == [i \in 1..Len(previewEntries) |->
                            PreviewDataOf(previewEntries[i], options, failed)]
           previewText == Render(exportData, options.format)
           suffixed == IF Len(selected) >= 3
                         THEN previewText \o "\n... and "
                              \o ToString(Len(selected) - 3) \o " more entries"
                         ELSE previewText
       IN IF options.encrypt /\ pass # ""
            THEN "[Encrypted export - preview not available]"
            ELSE suffixed

\* generatePreview(selected, options) with the passphrase of its closure: the
\* text it hands to setPreview.
PreviewText(selected, options, pass, failed) ==
  IF Len(selected) = 0 THEN "No entries selected for export"
  ELSE LET previewEntries == Slice(selected, 3)
           exportData == [i \in 1..Len(previewEntries) |->
                            PreviewDataOf(previewEntries[i], options, failed)]
           previewText == Render(exportData, options.format)
           suffixed == IF Len(selected) > 3
                         THEN previewText \o "\n... and "
                              \o ToString(Len(selected) - 3) \o " more entries"
                         ELSE previewText
       IN IF options.encrypt /\ pass # ""
            THEN "[Encrypted export - preview not available]"
            ELSE suffixed

\* useState<ExportOptions>({...}): the options of the first render, which the
\* closure of loadEntries (useCallback with [toast]) keeps.
InitialOptions ==
  [format |-> "json", includeAudio |-> FALSE, includeTags |-> TRUE,
   encrypt |-> FALSE]

\* A call generatePreview(selected, options) with the passphrase of its closure.
PreviewCall(selected, options, pass) ==
  [selected |-> selected, options |-> options, passphrase |-> pass]

\* The call awaits blobToBase64 (a FileReader) for one of its first 3
\* entries; any other call reaches setPreview before the next event.
AwaitsAudio(call) ==
  /\ call.options.includeAudio
  /\ \E i \in 1..Len(Slice(call.selected, 3)) : call.selected[i].audioBlob # <<>>

\* The preview after the calls that await no FileReader have run, in the
\* order they were started.
RECURSIVE PreviewAfter(_, _)
PreviewAfter(started, shown) ==
  IF started = <<>> THEN shown
  ELSE PreviewAfter(Tail(started),
                    IF AwaitsAudio(Head(started))
                      THEN shown
                      ELSE PreviewText(Head(started).selected,
                                       Head(started).options,
                                       Head(started).passphrase, {}))

\* The generatePreview calls a step starts: those that await a FileReader
\* stay pending, the others set the preview.
GeneratePreview(started) ==
  /\ Cardinality(previewJobs \cup {call \in Range(started) : AwaitsAudio(call)})
       <= MaxPreviews
  /\ previewJobs' = previewJobs \cup {call \in Range(started) : AwaitsAudio(call)}
  /\ preview' = PreviewAfter(started, preview)

\* entries.filter(entry => selectedEntries.includes(entry.id))
SelectedOf(list, ids) == SelectSeq(list, LAMBDA entry : entry.id \in Range(ids))

\* The effect on [selectedEntriesData, exportOptions, generatePreview], run
\* after the render that follows a step, with the values of that render: it
\* calls generatePreview only if an entry is selected.
PreviewEffect(selected, options, pass) ==
  IF Len(selected) > 0 THEN <<PreviewCall(selected, options, pass)>> ELSE <<>>

\* What a step hands to the clipboard or to the browser's download.
Written(via, job, content) ==
  <<[via |-> via, selected |-> Len(job.selected), content |-> content]>>

\* handleOpenChange(true): the dialog opens and loadEntries() is started
\* (setLoading(true), then `await journalDB.getAll()`).
HandleOpen ==
  /\ ~isOpen
  /\ loadsPending < MaxLoads
  /\ isOpen' = TRUE
  /\ loading' = TRUE
  /\ loadsPending' = loadsPending + 1
  /\ UNCHANGED <<entries, selectedEntries, exportOptions, passphrase,
                 confirmPassphrase, exportJob>>
  /\ toast' = ""
  /\ output' = <<>>
  /\ UNCHANGED <<preview, previewJobs>>
  /\ UNCHANGED <<dbVars, journalVars, fnVars, widgetVars>>

\* handleOpenChange(false): the form is reset.
HandleClose ==
  /\ isOpen
  /\ isOpen' = FALSE
  /\ passphrase' = ""
  /\ confirmPassphrase' = ""
  /\ selectedEntries' = <<>>
  /\ UNCHANGED <<entries, exportOptions, loading, loadsPending, exportJob>>
  /\ toast' = ""
  /\ output' = <<>>
  /\ UNCHANGED <<preview, previewJobs>>
  /\ UNCHANGED <<dbVars, journalVars, fnVars, widgetVars>>

\* loadEntries: getAll resolved; every entry is selected by default.
LoadEntriesResolved ==
  /\ loadsPending > 0
  /\ loadsPending' = loadsPending - 1
  /\ entries' = GetAllResult(objectStore)
  /\ selectedEntries' = IdsIn(GetAllResult(objectStore))
  /\ loading' = FALSE
  /\ UNCHANGED <<isOpen, exportOptions, passphrase, confirmPassphrase,
                 exportJob>>
  /\ toast' = ""
  /\ output' = <<>>
  /\ GeneratePreview(<<PreviewCall(GetAllResult(objectStore), InitialOptions, "")>>
                     \o PreviewEffect(GetAllResult(objectStore), exportOptions,
                                      passphrase))
  /\ UNCHANGED <<dbVars, journalVars, fnVars, widgetVars>>

\* loadEntries: getAll rejected; the catch block shows a toast.
LoadEntriesRejected ==
  /\ loadsPending > 0
  /\ loadsPending' = loadsPending - 1
  /\ toast' = "Loading failed"
  /\ loading' = FALSE
  /\ UNCHANGED <<isOpen, entries, selectedEntries, exportOptions, passphrase,
                 confirmPassphrase, exportJob>>
  /\ output' = <<>>
  /\ UNCHANGED <<preview, previewJobs>>
  /\ UNCHANGED <<dbVars, journalVars, fnVars, widgetVars>>

\* handleOptionsChange({ format }), ({ includeTags }), ({ includeAudio }),
\* ({ encrypt }): the option is merged into exportOptions.
HandleOptionsChange(field, value) ==
  /\ isOpen
  /\ exportOptions' = [exportOptions EXCEPT ![field] = value]
  /\ UNCHANGED <<isOpen, entries, selectedEntries, passphrase,
                 confirmPassphrase, loading, loadsPending, exportJob>>
  /\ toast' = ""
  /\ output' = <<>>
  /\ GeneratePreview(
       <<PreviewCall(SelectedEntriesData, [exportOptions EXCEPT ![field] = value],
                     passphrase)>>
         \o PreviewEffect(SelectedEntriesData,
                          [exportOptions EXCEPT ![field] = value], passphrase))
  /\ UNCHANGED <<dbVars, journalVars, fnVars, widgetVars>>

\* handleSelectAll: deselects all when all are selected, else selects all.
HandleSelectAll ==
  /\ isOpen
  /\ selectedEntries' = IF Len(selectedEntries) = Len(entries)
                          THEN <<>>
                          ELSE IdsIn(entries)
  /\ UNCHANGED <<isOpen, entries, exportOptions, passphrase,
                 confirmPassphrase, loading, loadsPending, exportJob>>
  /\ toast' = ""
  /\ output' = <<>>
  /\ GeneratePreview(PreviewEffect(IF Len(selectedEntries) = Len(entries)
                                     THEN <<>> ELSE entries,
                                   exportOptions, passphrase))
  /\ UNCHANGED <<dbVars, journalVars, fnVars, widgetVars>>

\* handleEntrySelect(entryId, checked) from the checkbox of a listed entry.
HandleEntrySelect(entryId, checked) ==
  /\ isOpen
  /\ ~loading
  /\ entryId \in Range(IdsIn(entries))
  /\ checked = (entryId \notin Range(selectedEntries))
  /\ selectedEntries' = IF checked
                          THEN Append(selectedEntries, entryId)
                          ELSE SelectSeq(selectedEntries, LAMBDA id : id # entryId)
  /\ UNCHANGED <<isOpen, entries, exportOptions, passphrase,
                 confirmPassphrase, loading, loadsPending, exportJob>>
  /\ toast' = ""
  /\ output' = <<>>
  /\ GeneratePreview(PreviewEffect(
       SelectedOf(entries,
                  IF checked
                    THEN Append(selectedEntries, entryId)
                    ELSE SelectSeq(selectedEntries, LAMBDA id : id # entryId)),
       exportOptions, passphrase))
  /\ UNCHANGED <<dbVars, journalVars, fnVars, widgetVars>>

\* The passphrase inputs, rendered while exportOptions.encrypt is set.
SetPassphrase(value) ==
  /\ isOpen
  /\ exportOptions.encrypt
  /\ passphrase' = value
  /\ UNCHANGED <<isOpen, entries, selectedEntries, exportOptions,
                 confirmPassphrase, loading, loadsPending, exportJob>>
  /\ toast' = ""
  /\ output' = <<>>
  /\ GeneratePreview(IF value # passphrase
                       THEN PreviewEffect(SelectedEntriesData, exportOptions, value)
                       ELSE <<>>)
  /\ UNCHANGED <<dbVars, journalVars, fnVars, widgetVars>>

SetConfirmPassphrase(value) ==
  /\ isOpen
  /\ exportOptions.encrypt
  /\ confirmPassphrase' = value
  /\ UNCHANGED <<isOpen, entries, selectedEntries, exportOptions, passphrase,
                 loading, loadsPending, exportJob>>
  /\ toast' = ""
  /\ output' = <<>>
  /\ UNCHANGED <<preview, previewJobs>>
  /\ UNCHANGED <<dbVars, journalVars, fnVars, widgetVars>>

\* handleExport(action) up to its first await: setLoading(true), the
\* validation (an early return runs the finally block at once), then the
\* mapping of the selected entries, awaited with Promise.all.
HandleExport(action) ==
  /\ exportJob.pc = "idle"
  /\ LET verdict == ExportValidation(selectedEntries, exportOptions,
                                     passphrase, confirmPassphrase)
     IN IF verdict = "ok"
          THEN /\ exportJob' = [NoJob EXCEPT !.pc = "serializing",
                                             !.action = action,
                                             !.selected = selectedEntries,
                                             !.data = SelectedEntriesData,
                                             !.options = exportOptions,
                                             !.passphrase = passphrase]
               /\ loading' = TRUE
               /\ toast' = ""
          ELSE /\ toast' = IF verdict = "empty" THEN "No entries selected"
                                                ELSE "Passphrase error"
               /\ loading' = FALSE
               /\ UNCHANGED exportJob
  /\ output' = <<>>
  /\ UNCHANGED <<isOpen, entries, selectedEntries, exportOptions, passphrase,
                 confirmPassphrase, loadsPending>>
  /\ UNCHANGED <<preview, previewJobs>>
  /\ UNCHANGED <<dbVars, journalVars, fnVars, widgetVars>>

\* The Copy and Download buttons: disabled={loading || selectedEntries.length === 0}.
ClickExport(action) ==
  /\ isOpen
  /\ ~loading
  /\ Len(selectedEntries) # 0
  /\ HandleExport(action)

\* handleExport called whatever the buttons show: the handler's own guard.
InvokeHandleExport(action) ==
  /\ ~isOpen \/ loading \/ Len(selectedEntries) = 0
  /\ HandleExport(action)

\* The download branch and the finally block: a Blob of the content is
\* downloaded under the file name.
Download(job, content) ==
  /\ output' = Written("download", job, content)
  /\ toast' = "Download started"
  /\ loading' = FALSE
  /\ exportJob' = NoJob

\* The copy branch up to its await of navigator.clipboard.writeText.
Copy(job, content) ==
  /\ exportJob' = [job EXCEPT !.pc = "copying", !.content = <<content>>]
  /\ output' = <<>>
  /\ toast' = ""
  /\ UNCHANGED loading

\* handleExport after Promise.all: the content is rendered; then encryptData
\* is awaited, or clipboard.writeText is awaited, or the file is downloaded.
ExportSerialized(failed) ==
  /\ exportJob.pc = "serializing"
  /\ failed \subseteq {e.id : e \in {x \in Range(exportJob.data) :
                                      exportJob.options.includeAudio /\ x.audioBlob # <<>>}}
  /\ LET content == PlainContent(exportJob.data, exportJob.options, failed)
     IN IF exportJob.options.encrypt /\ exportJob.passphrase # ""
          THEN /\ exportJob' = [exportJob EXCEPT !.pc = "encrypting",
                                                 !.content = <<content>>]
               /\ output' = <<>>
               /\ toast' = ""
               /\ UNCHANGED loading
          ELSE IF exportJob.action = "copy"
                 THEN Copy(exportJob, content)
                 ELSE Download(exportJob, content)
  /\ UNCHANGED <<isOpen, entries, selectedEntries, exportOptions, passphrase,
                 confirmPassphrase, loadsPending>>
  /\ UNCHANGED <<preview, previewJobs>>
  /\ UNCHANGED <<dbVars, journalVars, fnVars, widgetVars>>

\* encryptData resolved: the envelope replaces the content; then the copy is
\* awaited or the file is downloaded.
ExportEncrypted(salt, iv) ==
  /\ exportJob.pc = "encrypting"
  /\ LET content == EncryptedContent(exportJob.content[1], exportJob.passphrase,
                                     salt, iv)
     IN IF exportJob.action = "copy"
          THEN Copy(exportJob, content)
          ELSE Download(exportJob, content)
  /\ UNCHANGED <<isOpen, entries, selectedEntries, exportOptions, passphrase,
                 confirmPassphrase, loadsPending>>
  /\ UNCHANGED <<preview, previewJobs>>
  /\ UNCHANGED <<dbVars, journalVars, fnVars, widgetVars>>

\* navigator.clipboard.writeText resolved: the toast, then the finally block.
ExportCopied ==
  /\ exportJob.pc = "copying"
  /\ output' = Written("clipboard", exportJob, exportJob.content[1])
  /\ toast' = "Copied to clipboard"
  /\ loading' = FALSE
  /\ exportJob' = NoJob
  /\ UNCHANGED <<isOpen, entries, selectedEntries, exportOptions, passphrase,
                 confirmPassphrase, loadsPending>>
  /\ UNCHANGED <<preview, previewJobs>>
  /\ UNCHANGED <<dbVars, journalVars, fnVars, widgetVars>>

\* encryptData or clipboard.writeText rejected: the catch block, then finally.
ExportFailed ==
  /\ exportJob.pc \in {"encrypting", "copying"}
  /\ toast' = "Export failed"
  /\ output' = <<>>
  /\ loading' = FALSE
  /\ exportJob' = NoJob
  /\ UNCHANGED <<isOpen, entries, selectedEntries, exportOptions, passphrase,
                 confirmPassphrase, loadsPending>>
  /\ UNCHANGED <<preview, previewJobs>>
  /\ UNCHANGED <<dbVars, journalVars, fnVars, widgetVars>>

\* generatePreview after Promise.all: the conversions it awaited are done,
\* those of the entries in failed were rejected; setPreview(previewText).
PreviewCompleted(call, failed) ==
  /\ call \in previewJobs
  /\ failed \subseteq {call.selected[i].id : i \in 1..Len(Slice(call.selected, 3))}
  /\ preview' = PreviewText(call.selected, call.options, call.passphrase, failed)
  /\ previewJobs' = previewJobs \ {call}
  /\ toast' = ""
  /\ output' = <<>>
  /\ UNCHANGED <<isOpen, entries, selectedEntries, exportOptions, passphrase,
                 confirmPassphrase, loading, loadsPending, exportJob>>
  /\ UNCHANGED <<dbVars, journalVars, fnVars, widgetVars>>

\* ---- the initial state of the pages (components/JournalEntry, Timeline)
NoSave == [pc |-> "idle", slot |-> 0, editing |-> FALSE, draft |-> <<>>]

NoPageLoad == [pc |-> "idle", slot |-> 0, id |-> <<>>]

NoSummaryJob == [pc |-> "idle", slot |-> 0, entry |-> <<>>]

NoDelete == [pc |-> "idle", slot |-> 0, id |-> <<>>]

\* No call of a Settings handler is in progress.
NoSettingsJob == [pc |-> "idle", slot |-> 0, from |-> "none", entries |-> <<>>]

\* The useState values of Settings on its first render.
InitialSettings ==
  [stats |-> <<[totalEntries |-> 0, totalStorageSize |-> 0]>>,
   loading |-> TRUE, clearing |-> FALSE, apiKey |-> "", showApiKey |-> FALSE,
   gptDigest |-> "", gptDigestLoading |-> FALSE,
   statsJob |-> NoSettingsJob, clearJob |-> NoSettingsJob,
   digestJob |-> NoSettingsJob]

\* The application starts on the form, with nothing to edit.
InitJournal ==
  /\ page = "entry"
  /\ pageLoad = NoPageLoad
  /\ editingEntry = <<>>
  /\ isSaving = FALSE
  /\ saveJob = NoSave
  /\ timelineEntries = <<>>
  /\ summarizingEntries = {}
  /\ summaryJobs = [id \in Ids |-> NoSummaryJob]
  /\ deleteJob = NoDelete
  /\ usedIds = {}

\* The entry with id i of the journal the dialog is opened on.
SampleEntry(i) ==
  NewEntry(i, ContentAt(i), ((i + 1) % MaxTime) + 1, ((i - 1) % MaxTime) + 1,
           AudioAt(i))

InitExport ==
  /\ isOpen = FALSE
  /\ entries = <<>>
  /\ selectedEntries = <<>>
  /\ exportOptions = InitialOptions
  /\ passphrase = ""
  /\ confirmPassphrase = ""
  /\ loading = FALSE
  /\ loadsPending = 0
  /\ exportJob = NoJob
  /\ toast = ""
  /\ output = <<>>
  /\ preview = ""
  /\ previewJobs = {}

\* No function is being applied on its own.
InitFn ==
  /\ args = <<>>
  /\ returned = <<>>

\* TagInput as the form mounts it: no tags, an empty input.
InitWidgets ==
  /\ tagInput = [tags |-> <<>>, inputValue |-> "", showSuggestions |-> FALSE]
  /\ localStorage = <<>>
  /\ requests = 0
  /\ settings = InitialSettings

\* The dialog over a journal of 0..MaxListed entries, none with audio.
InitModal ==
  /\ db = "open"
  /\ objectStore \in {{SampleEntry(i) : i \in 1..n} : n \in 0..MaxListed}
  /\ calls = [c \in Slots |-> IdleCall]
  /\ openQueue = <<>>
  /\ txQueue = <<>>
  /\ lastWrite = NoWrite
  /\ scenario = NoScenario
  /\ InitExport
  /\ InitJournal
  /\ InitWidgets
  /\ InitFn

NextExport ==
  \/ HandleOpen
  \/ HandleClose
  \/ LoadEntriesResolved
  \/ LoadEntriesRejected
  \/ \E f \in Formats : HandleOptionsChange("format", f)
  \/ \E b \in BOOLEAN : HandleOptionsChange("includeTags", b)
  \/ \E b \in BOOLEAN : HandleOptionsChange("includeAudio", b)
  \/ \E b \in BOOLEAN : HandleOptionsChange("encrypt", b)
  \/ HandleSelectAll
  \/ \E id \in Ids, checked \in BOOLEAN : HandleEntrySelect(id, checked)
  \/ \E p \in Passphrases : SetPassphrase(p)
  \/ \E p \in Confirmations : SetConfirmPassphrase(p)
  \/ \E a \in {"copy", "download"} : ClickExport(a)
  \/ \E a \in {"copy", "download"} : InvokeHandleExport(a)
  \/ \E failed \in SUBSET Ids : ExportSerialized(failed)
  \/ \E salt \in Salts, iv \in Ivs : ExportEncrypted(salt, iv)
  \/ ExportCopied
  \/ ExportFailed

SpecExport == InitModal /\ [][NextExport]_vars

\* ---- the preview pane of the dialog, over a journal with a voice note
InitPreview ==
  /\ db = "open"
  /\ objectStore = {SampleEntry(i) : i \in Ids}
  /\ calls = [c \in Slots |-> IdleCall]
  /\ openQueue = <<>>
  /\ txQueue = <<>>
  /\ lastWrite = NoWrite
  /\ scenario = NoScenario
  /\ InitExport
  /\ InitJournal
  /\ InitWidgets
  /\ InitFn

NextPreview ==
  \/ HandleOpen
  \/ HandleClose
  \/ LoadEntriesResolved
  \/ LoadEntriesRejected
  \/ \E f \in Formats : HandleOptionsChange("format", f)
  \/ \E b \in BOOLEAN : HandleOptionsChange("includeTags", b)
  \/ \E b \in BOOLEAN : HandleOptionsChange("includeAudio", b)
  \/ \E b \in BOOLEAN : HandleOptionsChange("encrypt", b)
  \/ HandleSelectAll
  \/ \E id \in Ids, checked \in BOOLEAN : HandleEntrySelect(id, checked)
  \/ \E p \in Passphrases : SetPassphrase(p)
  \/ \E call \in previewJobs, failed \in SUBSET Ids : PreviewCompleted(call, failed)

SpecPreview == InitPreview /\ [][NextPreview]_vars


\* ------------------------------------------- one caller, awaiting each call
\* The caller that issues its journalDB calls one after the other.
Caller == CHOOSE c \in Slots : \A d \in Slots : c <= d

InitSeq == InitDB /\ InitExport /\ InitJournal /\ InitWidgets /\ InitFn

NextSeq ==
  \/ \E e \in EntryInputs : Save(Caller, e) /\ UNCHANGED <<exportVars, journalVars, fnVars, widgetVars>>
  \/ \E e \in EntryInputs : Update(Caller, e) /\ UNCHANGED <<exportVars, journalVars, fnVars, widgetVars>>
  \/ GetAll(Caller) /\ UNCHANGED <<exportVars, journalVars, fnVars, widgetVars>>
  \/ \E id \in Ids : GetById(Caller, id) /\ UNCHANGED <<exportVars, journalVars, fnVars, widgetVars>>
  \/ \E id \in Ids : Delete(Caller, id) /\ UNCHANGED <<exportVars, journalVars, fnVars, widgetVars>>
  \/ GetStats(Caller) /\ UNCHANGED <<exportVars, journalVars, fnVars, widgetVars>>
  \/ Clear(Caller) /\ UNCHANGED <<exportVars, journalVars, fnVars, widgetVars>>
  \/ OpenSuccess(Caller) /\ UNCHANGED <<exportVars, journalVars, fnVars, widgetVars>>
  \/ OpenError(Caller) /\ UNCHANGED <<exportVars, journalVars, fnVars, widgetVars>>
  \/ SaveSuccess(Caller) /\ UNCHANGED <<exportVars, journalVars, fnVars, widgetVars>>
  \/ GetAllSuccess(Caller) /\ UNCHANGED <<exportVars, journalVars, fnVars, widgetVars>>
  \/ GetByIdSuccess(Caller) /\ UNCHANGED <<exportVars, journalVars, fnVars, widgetVars>>
  \/ DeleteSuccess(Caller) /\ UNCHANGED <<exportVars, journalVars, fnVars, widgetVars>>
  \/ GetStatsSuccess(Caller) /\ UNCHANGED <<exportVars, journalVars, fnVars, widgetVars>>
  \/ ClearSuccess(Caller) /\ UNCHANGED <<exportVars, journalVars, fnVars, widgetVars>>
  \/ RequestError(Caller) /\ UNCHANGED <<exportVars, journalVars, fnVars, widgetVars>>
  \/ Return(Caller) /\ UNCHANGED <<exportVars, journalVars, fnVars, widgetVars>>
  \/ Reload /\ UNCHANGED <<exportVars, journalVars, fnVars, widgetVars>>

SpecSeq == InitSeq /\ [][NextSeq]_vars

\* ---------------------------------------------- the whole application
NextDB ==
  \/ \E c \in Slots, e \in EntryInputs : Save(c, e)
  \/ \E c \in Slots, e \in EntryInputs : Update(c, e)
  \/ \E c \in Slots : GetAll(c)
  \/ \E c \in Slots, id \in Ids : GetById(c, id)
  \/ \E c \in Slots, id \in Ids : Delete(c, id)
  \/ \E c \in Slots : GetStats(c)
  \/ \E c \in Slots : Clear(c)
  \/ \E c \in Slots : OpenSuccess(c)
  \/ \E c \in Slots : OpenError(c)
  \/ \E c \in Slots : SaveSuccess(c)
  \/ \E c \in Slots : GetAllSuccess(c)
  \/ \E c \in Slots : GetByIdSuccess(c)
  \/ \E c \in Slots : DeleteSuccess(c)
  \/ \E c \in Slots : GetStatsSuccess(c)
  \/ \E c \in Slots : ClearSuccess(c)
  \/ \E c \in Slots : RequestError(c)
  \/ \E c \in Slots : Return(c)
  \/ Reload

Init == InitDB /\ InitExport /\ InitJournal /\ InitWidgets /\ InitFn

Next ==
  \/ NextDB /\ UNCHANGED <<exportVars, journalVars, fnVars, widgetVars>>
  \/ NextExport

Spec == Init /\ [][Next]_vars

\* ------------------------------------- lib/openai and lib/summarise.ts
\* JSON values as JSON.parse gives them: null, a string, an array of
\* strings, or an object whose members are such values.
JsonNull == [type |-> "null", items |-> <<>>, text |-> "", members |-> <<>>]

JsonArrayOf(items) == [type |-> "array", items |-> items, text |-> "", members |-> <<>>]

JsonStringOf(text) == [type |-> "string", items |-> <<>>, text |-> text, members |-> <<>>]

JsonObjectOf(members) ==
  [type |-> "object", items |-> <<>>, text |-> "", members |-> members]

\* The keys of EntrySummary, in the order the prompt asks for them.
SummaryKeys == <<"highlights", "decisions", "actions", "risks", "mood">>

\* What the reply can hold under a key: an array, a string or null.
MemberValues == {JsonArrayOf(<<"insight">>), JsonStringOf("calm"), JsonNull}

\* The objects of a reply: any of the keys may be missing.
JsonObjects ==
  {JsonObjectOf(m) : m \in UNION {[K -> MemberValues] : K \in SUBSET Range(SummaryKeys)}}

JsonValues == JsonObjects \cup MemberValues

\* The text of a member value.
MemberText(v) ==
  CASE v.type = "null" -> "null"
    [] v.type = "string" -> JsonString(v.text)
    [] v.type = "array" ->
         "[" \o Join([i \in 1..Len(v.items) |-> JsonString(v.items[i])], ",") \o "]"

\* The JSON text of a value, without white space.
JsonText(v) ==
  IF v.type # "object" THEN MemberText(v)
  ELSE LET keys == SelectSeq(SummaryKeys, LAMBDA k : k \in DOMAIN v.members)
       IN "{" \o Join([i \in 1..Len(keys) |->
                         JsonString(keys[i]) \o ":" \o MemberText(v.members[keys[i]])],
                      ",") \o "}"

JsonTexts == [v \in JsonValues |-> JsonText(v)]

\* JSON.parse: the value whose text this is; a SyntaxError for any other
\* text.
JsonParse(text) ==
  LET hits == {v \in JsonValues : JsonTexts[v] = text}
  IN IF hits = {} THEN [ok |-> FALSE, value |-> JsonNull]
     ELSE [ok |-> TRUE, value |-> CHOOSE v \in hits : TRUE]

\* What the chat completion endpoint can answer with: a JSON value as text,
\* the same between white space, or something that is not JSON.
Replies ==
  {JsonTexts[v] : v \in JsonValues}
    \cup {" " \o JsonTexts[v] \o "\n" : v \in {JsonObjectOf(<<>>), JsonNull}}
    \cup {"", "Here is the summary you asked for."}

\* The stored OPENAI_API_KEY: none, or a key.
ApiKeys == {<<>>, <<"sk-1">>}

\* What fetch does: it rejects, it answers with a non-success status, or it
\* answers with a completion (without choices, or with a message content).
Networks ==
  {[kind |-> "unreachable", status |-> 0, content |-> <<>>],
   [kind |-> "status", status |-> 401, content |-> <<>>]}
    \cup {[kind |-> "ok", status |-> 200, content |-> c] :
            c \in {<<>>} \cup {<<r>> : r \in Replies}}

Threw(message, fetched) ==
  [threw |-> TRUE, message |-> message, text |-> "", requests |-> fetched]

\* OpenAIAPI.chatCompletion: getApiKey throws without a stored key; fetch
\* may reject; a non-success status throws; the content of the first choice
\* is returned, or 'No response generated'.
ChatCompletion(apiKey, network) ==
  IF apiKey = <<>> \/ apiKey[1] = ""
    THEN Threw("OpenAI API key not found. Please add your API key in Settings.", 0)
  ELSE IF network.kind = "unreachable" THEN Threw("Failed to fetch", 1)
  ELSE IF network.kind = "status"
    THEN Threw("OpenAI API error: " \o ToString(network.status) \o " - ", 1)
  ELSE [threw |-> FALSE, message |-> "", requests |-> 1,
        text |-> IF network.content = <<>> \/ network.content[1] = ""
                   THEN "No response generated" ELSE network.content[1]]

\* summary.<key>: undefined unless the value is an object with that member.
HasMember(v, key) == v.type = "object" /\ key \in DOMAIN v.members

\* Array.isArray(summary.<key>) ? summary.<key> : []
ListField(v, key) ==
  IF HasMember(v, key) /\ v.members[key].type = "array"
    THEN v.members[key].items ELSE <<>>

\* typeof summary.mood === 'string' ? summary.mood : 'neutral'
MoodField(v) ==
  IF HasMember(v, "mood") /\ v.members["mood"].type = "string"
    THEN v.members["mood"].text ELSE "neutral"

SummariseError == "Failed to summarize entry - check your API key and connection"

NoSummary ==
  [highlights |-> <<>>, decisions |-> <<>>, actions |-> <<>>, risks |-> <<>>,
   mood |-> ""]

SummariseEntryRequiringKeys(apiKey, network) ==
  LET completion == ChatCompletion(apiKey, network)
      parsed == JsonParse(Trim(completion.text))
  IN IF \/ completion.threw \/ ~parsed.ok \/ parsed.value.type = "null"
        \/ \E key \in Range(SummaryKeys) : ~HasMember(parsed.value, key)
       THEN [threw |-> TRUE, message |-> SummariseError, summary |-> NoSummary,
             requests |-> completion.requests]
       ELSE [threw |-> FALSE, message |-> "", requests |-> completion.requests,
             summary |-> [highlights |-> ListField(parsed.value, "highlights"),
                          decisions |-> ListField(parsed.value, "decisions"),
                          actions |-> ListField(parsed.value, "actions"),
                          risks |-> ListField(parsed.value, "risks"),
                          mood |-> MoodField(parsed.value)]]

\* summariseEntry after its prompt: the completion is parsed and validated;
\* whatever is thrown on the way (by chatCompletion, by JSON.parse, by the
\* member access on null) is replaced by one Error.
SummariseEntry(apiKey, network) ==
  LET completion == ChatCompletion(apiKey, network)
      parsed == JsonParse(Trim(completion.text))
  IN IF completion.threw \/ ~parsed.ok \/ parsed.value.type = "null"
       THEN [threw |-> TRUE, message |-> SummariseError, summary |-> NoSummary,
             requests |-> completion.requests]
       ELSE [threw |-> FALSE, message |-> "", requests |-> completion.requests,
             summary |-> [highlights |-> ListField(parsed.value, "highlights"),
                          decisions |-> ListField(parsed.value, "decisions"),
                          actions |-> ListField(parsed.value, "actions"),
                          risks |-> ListField(parsed.value, "risks"),
                          mood |-> MoodField(parsed.value)]]

\* summariseEntry on its own: called once under a stored key and a network.
InitSummarise ==
  /\ InitDB
  /\ InitExport
  /\ InitJournal
  /\ InitWidgets
  /\ args \in {<<[apiKey |-> k, network |-> n]>> : k \in ApiKeys, n \in Networks}
  /\ returned = <<>>

CallSummariseEntry ==
  /\ returned = <<>>
  /\ returned' = <<SummariseEntry(args[1].apiKey, args[1].network)>>
  /\ UNCHANGED <<args, dbVars, exportVars, journalVars, widgetVars>>

NextSummarise == CallSummariseEntry

SpecSummarise == InitSummarise /\ [][NextSummarise]_vars

\* ------------------------------------- the pages: JournalEntry form
\* What the user can have typed, tagged and recorded when Save is pressed.
FormContents == {"", " ", " note "}

FormTags == {<<>>, <<"Work">>}

FormAudio == {<<>>, <<3>>}

\* No handler of either page is running and no journalDB call is pending.
Quiescent ==
  /\ \A c \in Slots : calls[c].pc = "idle"
  /\ saveJob.pc = "idle"
  /\ pageLoad.pc = "idle"
  /\ deleteJob.pc = "idle"
  /\ \A id \in Ids : summaryJobs[id].pc = "idle"
  /\ settings.statsJob.pc = "idle"
  /\ settings.clearJob.pc = "idle"
  /\ settings.digestJob.pc = "idle"

\* The pages have fewer than MaxPending journalDB calls in flight.
CanCall == Cardinality({c \in Slots : calls[c].pc # "idle"}) < MaxPending

\* A link is followed (href="/", `/?id=${entry.id}`, "/timeline", "/settings") or
\* window.location.href is set: the document is loaded anew, every component
\* starts from its initial state over a new JournalDatabase.
Navigate(to, id) ==
  /\ Quiescent \/ pageLoad.pc = "navigating"
  /\ \A c \in Slots : calls[c].pc = "idle"
  /\ pageLoad.pc = "navigating" => to = "timeline" /\ id = <<>>
  /\ to = "timeline" => id = <<>>
  /\ page' = to
  /\ pageLoad' = [pc |-> "mounting", slot |-> 0, id |-> id]
  /\ db' = "null"
  /\ editingEntry' = <<>>
  /\ isSaving' = FALSE
  /\ saveJob' = NoSave
  /\ timelineEntries' = <<>>
  /\ summarizingEntries' = {}
  /\ toast' = ""
  /\ settings' = InitialSettings
  /\ isOpen' = FALSE
  /\ entries' = <<>>
  /\ selectedEntries' = <<>>
  /\ exportOptions' = InitialOptions
  /\ passphrase' = ""
  /\ confirmPassphrase' = ""
  /\ loading' = FALSE
  /\ loadsPending' = 0
  /\ exportJob' = NoJob
  /\ output' = <<>>
  /\ preview' = ""
  /\ previewJobs' = {}
  /\ UNCHANGED <<objectStore, calls, openQueue, txQueue, lastWrite, scenario,
                 summaryJobs, deleteJob, usedIds>>
  /\ UNCHANGED <<fnVars, tagInput, localStorage, requests>>

\* The mount effect of the page: the form reads the entry named in the URL
\* with journalDB.getById, the Timeline calls loadEntries().
Mount(c) ==
  /\ page \in {"entry", "timeline"}
  /\ pageLoad.pc = "mounting"
  /\ IF page = "entry" /\ pageLoad.id = <<>>
       THEN /\ pageLoad' = NoPageLoad
            /\ UNCHANGED dbVars
       ELSE /\ CanCall
            /\ pageLoad' = [pageLoad EXCEPT !.pc = "loading", !.slot = c]
            /\ IF page = "entry" THEN GetById(c, pageLoad.id[1]) ELSE GetAll(c)
  /\ toast' = ""
  /\ UNCHANGED <<page, editingEntry, isSaving, saveJob, timelineEntries,
                 summarizingEntries, summaryJobs, deleteJob, usedIds>>
  /\ UNCHANGED <<exportState, fnVars, widgetVars>>

\* The mount effect's call settles: the form takes the entry to edit (none
\* when the id is unknown), the Timeline its list; a rejection is a toast.
Mounted ==
  /\ pageLoad.pc = "loading"
  /\ calls[pageLoad.slot].pc \in {"resolved", "rejected"}
  /\ Return(pageLoad.slot)
  /\ pageLoad' = NoPageLoad
  /\ IF calls[pageLoad.slot].pc = "rejected"
       THEN /\ toast' = IF page = "entry" THEN "Load failed" ELSE "Loading failed"
            /\ UNCHANGED <<editingEntry, timelineEntries>>
       ELSE /\ toast' = ""
            /\ IF page = "entry"
                 THEN /\ editingEntry' = calls[pageLoad.slot].entries
                      /\ UNCHANGED timelineEntries
                 ELSE /\ timelineEntries' = calls[pageLoad.slot].entries
                      /\ UNCHANGED editingEntry
  /\ UNCHANGED <<page, isSaving, saveJob, summarizingEntries, summaryJobs,
                 deleteJob, usedIds>>
  /\ UNCHANGED <<exportState, fnVars, widgetVars>>

\* What fetch does for a transcription: it rejects, it answers with a
\* non-success status, or with a text (or none).
TranscriptionNetworks ==
  {[kind |-> "unreachable", status |-> 0, content |-> <<>>],
   [kind |-> "status", status |-> 401, content |-> <<>>],
   [kind |-> "ok", status |-> 200, content |-> <<>>],
   [kind |-> "ok", status |-> 200, content |-> <<"spoken words">>]}

TranscribeAudioFetchingWithoutKey(apiKey, network) ==
  IF network.kind # "ok"
    THEN [text |-> "Transcription failed - check your API key and connection",
          requests |-> 1]
  ELSE [text |-> IF network.content = <<>> THEN "No transcription available"
                                           ELSE network.content[1],
        requests |-> 1]

\* transcribeAudio: without a stored key it returns its notice and makes no
\* request; it never rejects, a failed request gives its own message.
TranscribeAudio(apiKey, network) ==
  IF apiKey = <<>> \/ apiKey[1] = ""
    THEN [text |-> "Transcription not available - add OpenAI API key in Settings to enable auto-transcription.",
          requests |-> 0]
  ELSE IF network.kind # "ok"
    THEN [text |-> "Transcription failed - check your API key and connection",
          requests |-> 1]
  ELSE [text |-> IF network.content = <<>> \/ network.content[1] = ""
                   THEN "No transcription available"
                   ELSE network.content[1],
        requests |-> 1]

\* The ids crypto.randomUUID() can still give: none that was given before;
\* the form creates MaxCreated entries at most.
FreshIds ==
  IF Cardinality(usedIds) < MaxCreated
    THEN Ids \ (usedIds \cup {r.id : r \in objectStore})
    ELSE {}

SaveValidationUntrimmed(content, audioBlob) ==
  content = "" /\ audioBlob = <<>>

\* handleSave's guard: `!content.trim() && !audioBlob`.
SaveValidation(content, audioBlob) ==
  Trim(content) = "" /\ audioBlob = <<>>

\* The Save button: disabled={isSaving || isTranscribing ||
\* (!content.trim() && !audioBlob)}.
SaveDisabled(content, audioBlob) ==
  \/ isSaving
  \/ saveJob.pc = "transcribing"
  \/ Trim(content) = "" /\ audioBlob = <<>>

\* The edit branch's record: the entry being edited with content, tags,
\* audioBlob and updatedAt replaced.
UpdatedEntry(content, tags, audioBlob, now) ==
  [editingEntry[1] EXCEPT !.content = Trim(content), !.tags = tags,
                          !.audioBlob = audioBlob, !.updatedAt = now]

\* The create branch's record.
CreatedEntry(id, content, tags, audioBlob, transcript, now) ==
  [id |-> id, content |-> Trim(content), tags |-> tags, timestamp |-> now,
   audioBlob |-> audioBlob, transcript |-> transcript, summary |-> <<>>,
   createdAt |-> now, updatedAt |-> now]

\* handleSave up to its first await: the validation, setIsSaving(true), and
\* either the call of transcribeAudio or the record and its write.
HandleSave(c, id, content, tags, audioBlob, transcribeAfterSave, now) ==
  /\ page = "entry"
  /\ pageLoad.pc \in {"idle", "loading"}
  /\ saveJob.pc = "idle"
  /\ IF SaveValidation(content, audioBlob)
       THEN /\ toast' = "Nothing to save"
            /\ UNCHANGED <<dbVars, isSaving, saveJob, usedIds>>
       ELSE /\ toast' = ""
            /\ isSaving' = TRUE
            /\ IF editingEntry # <<>>
                 THEN /\ CanCall
                      /\ Update(c, UpdatedEntry(content, tags, audioBlob, now))
                      /\ saveJob' = [pc |-> "saving", slot |-> c, editing |-> TRUE,
                                     draft |-> <<UpdatedEntry(content, tags, audioBlob, now)>>]
                      /\ UNCHANGED usedIds
                 ELSE /\ id \in FreshIds
                      /\ usedIds' = usedIds \cup {id}
                      /\ IF transcribeAfterSave /\ audioBlob # <<>>
                           THEN /\ saveJob' =
                                     [pc |-> "transcribing", slot |-> 0, editing |-> FALSE,
                                      draft |-> <<CreatedEntry(id, content, tags, audioBlob, <<>>, now)>>]
                                /\ UNCHANGED dbVars
                           ELSE /\ CanCall
                                /\ Save(c, CreatedEntry(id, content, tags, audioBlob, <<>>, now))
                                /\ saveJob' =
                                     [pc |-> "saving", slot |-> c, editing |-> FALSE,
                                      draft |-> <<CreatedEntry(id, content, tags, audioBlob, <<>>, now)>>]
  /\ UNCHANGED <<page, pageLoad, editingEntry, timelineEntries,
                 summarizingEntries, summaryJobs, deleteJob>>
  /\ UNCHANGED <<exportState, fnVars, widgetVars>>

\* The Save button is pressed while it is enabled.
ClickSave(c, id, content, tags, audioBlob, transcribeAfterSave, now) ==
  /\ ~SaveDisabled(content, audioBlob)
  /\ HandleSave(c, id, content, tags, audioBlob, transcribeAfterSave, now)

\* handleSave called whatever the button shows: the handler's own guard.
InvokeHandleSave(c, id, content, tags, audioBlob, transcribeAfterSave, now) ==
  /\ SaveDisabled(content, audioBlob)
  /\ HandleSave(c, id, content, tags, audioBlob, transcribeAfterSave, now)

\* `transcript = await transcribeAudio(audioBlob)` resolves; the record is
\* built with it and written.
Transcribed(c, network) ==
  /\ saveJob.pc = "transcribing"
  /\ CanCall
  /\ Save(c, [saveJob.draft[1] EXCEPT
                !.transcript = <<TranscribeAudio(localStorage, network).text>>])
  /\ saveJob' = [saveJob EXCEPT !.pc = "saving", !.slot = c,
       !.draft = <<[saveJob.draft[1] EXCEPT
                     !.transcript = <<TranscribeAudio(localStorage, network).text>>]>>]
  /\ requests' = TranscribeAudio(localStorage, network).requests
  /\ toast' = "Audio transcribed"
  /\ UNCHANGED <<page, pageLoad, editingEntry, isSaving, timelineEntries,
                 summarizingEntries, summaryJobs, deleteJob, usedIds>>
  /\ UNCHANGED <<exportState, fnVars, tagInput, localStorage, settings>>

\* The continuation without its finally block: a rejected write leaves
\* isSaving set.
SavedWithoutFinally ==
  /\ saveJob.pc = "saving"
  /\ calls[saveJob.slot].pc \in {"resolved", "rejected"}
  /\ Return(saveJob.slot)
  /\ saveJob' = NoSave
  /\ IF calls[saveJob.slot].pc = "rejected"
       THEN /\ toast' = IF saveJob.editing THEN "Update failed" ELSE "Save failed"
            /\ UNCHANGED <<pageLoad, isSaving>>
       ELSE /\ toast' = IF saveJob.editing THEN "Entry updated" ELSE "Entry saved"
            /\ isSaving' = FALSE
            /\ pageLoad' = IF saveJob.editing
                             THEN [pc |-> "navigating", slot |-> 0, id |-> <<>>]
                             ELSE pageLoad
  /\ UNCHANGED <<page, editingEntry, timelineEntries, summarizingEntries,
                 summaryJobs, deleteJob, usedIds>>
  /\ UNCHANGED <<exportState, fnVars, widgetVars>>


\* The write settles: the toast, the navigation to /timeline after an
\* update, the catch block after a rejection, and `finally` with
\* setIsSaving(false).
Saved ==
  /\ saveJob.pc = "saving"
  /\ calls[saveJob.slot].pc \in {"resolved", "rejected"}
  /\ Return(saveJob.slot)
  /\ saveJob' = NoSave
  /\ isSaving' = FALSE
  /\ IF calls[saveJob.slot].pc = "rejected"
       THEN /\ toast' = IF saveJob.editing THEN "Update failed" ELSE "Save failed"
            /\ UNCHANGED pageLoad
       ELSE /\ toast' = IF saveJob.editing THEN "Entry updated" ELSE "Entry saved"
            /\ pageLoad' = IF saveJob.editing
                             THEN [pc |-> "navigating", slot |-> 0, id |-> <<>>]
                             ELSE pageLoad
  /\ UNCHANGED <<page, editingEntry, timelineEntries, summarizingEntries,
                 summaryJobs, deleteJob, usedIds>>
  /\ UNCHANGED <<exportState, fnVars, widgetVars>>

\* ------------------------------------------- the pages: Timeline
\* What fetch does for the Timeline's summaries: it rejects, it answers
\* with a non-success status, with no choice, with text that is not JSON, or
\* with a summary.
TimelineNetworks ==
  {[kind |-> "unreachable", status |-> 0, content |-> <<>>],
   [kind |-> "status", status |-> 401, content |-> <<>>],
   [kind |-> "ok", status |-> 200, content |-> <<>>],
   [kind |-> "ok", status |-> 200, content |-> <<"Here is the summary you asked for.">>],
   [kind |-> "ok", status |-> 200, content |-> <<"{\"highlights\":[\"insight\"]}">>]}

\* summariseEntry under each stored key and each answer of the network.
Summarised ==
  [k \in ApiKeys |-> [n \in TimelineNetworks |-> SummariseEntry(k, n)]]

\* What summariseEntry resolves with, after its validation of the reply.
Summaries ==
  {SummariseEntry(p[1], p[2]).summary :
     p \in {q \in ApiKeys \X TimelineNetworks : ~SummariseEntry(q[1], q[2]).threw}}

\* prev.filter(entry => entry.id !== entryId)
WithoutId(list, id) == SelectSeq(list, LAMBDA e : e.id # id)

\* prev.map(e => e.id === entry.id ? updatedEntry : e)
Replaced(list, updatedEntry) ==
  [i \in 1..Len(list) |-> IF list[i].id = updatedEntry.id THEN updatedEntry ELSE list[i]]

\* handleSummarizeEntry up to `await summariseEntry(entry)`; the button of
\* the entry is disabled={summarizingEntries.has(entry.id)}.
HandleSummarizeEntry(i) ==
  /\ page = "timeline"
  /\ i \in 1..Len(timelineEntries)
  /\ timelineEntries[i].id \notin summarizingEntries
  /\ summarizingEntries' = summarizingEntries \cup {timelineEntries[i].id}
  /\ summaryJobs' = [summaryJobs EXCEPT ![timelineEntries[i].id] =
       [pc |-> "summarising", slot |-> 0, entry |-> <<timelineEntries[i]>>]]
  /\ toast' = ""
  /\ UNCHANGED <<page, pageLoad, editingEntry, isSaving, saveJob,
                 timelineEntries, deleteJob, usedIds>>
  /\ UNCHANGED <<dbVars, exportState, fnVars, widgetVars>>

\* summariseEntry resolves: updatedEntry = {...entry, summary, updatedAt:
\* new Date()} is handed to journalDB.update.
SummariseResolved(c, id, network, now) ==
  /\ summaryJobs[id].pc = "summarising"
  /\ ~Summarised[localStorage][network].threw
  /\ CanCall
  /\ Update(c, [summaryJobs[id].entry[1] EXCEPT
                 !.summary = <<Summarised[localStorage][network].summary>>,
                 !.updatedAt = now])
  /\ summaryJobs' = [summaryJobs EXCEPT ![id] =
       [pc |-> "updating", slot |-> c,
        entry |-> <<[summaryJobs[id].entry[1] EXCEPT
                      !.summary = <<Summarised[localStorage][network].summary>>,
                      !.updatedAt = now]>>]]
  /\ requests' = Summarised[localStorage][network].requests
  /\ toast' = ""
  /\ UNCHANGED <<page, pageLoad, editingEntry, isSaving, saveJob,
                 timelineEntries, summarizingEntries, deleteJob, usedIds>>
  /\ UNCHANGED <<exportState, fnVars, tagInput, localStorage, settings>>

SummariseRejectedSilently(id, network) ==
  /\ summaryJobs[id].pc = "summarising"
  /\ Summarised[localStorage][network].threw
  /\ summaryJobs' = [summaryJobs EXCEPT ![id] = NoSummaryJob]
  /\ summarizingEntries' = summarizingEntries \ {id}
  /\ requests' = Summarised[localStorage][network].requests
  /\ toast' = ""
  /\ UNCHANGED <<page, pageLoad, editingEntry, isSaving, saveJob,
                 timelineEntries, deleteJob, usedIds>>
  /\ UNCHANGED <<dbVars, exportState, fnVars, tagInput, localStorage, settings>>

\* summariseEntry throws: the catch block's toast, with the error's message
\* as its description, and the finally block.
SummariseRejected(id, network) ==
  /\ summaryJobs[id].pc = "summarising"
  /\ Summarised[localStorage][network].threw
  /\ summaryJobs' = [summaryJobs EXCEPT ![id] = NoSummaryJob]
  /\ summarizingEntries' = summarizingEntries \ {id}
  /\ requests' = Summarised[localStorage][network].requests
  /\ toast' = "Summarization failed: " \o Summarised[localStorage][network].message
  /\ UNCHANGED <<page, pageLoad, editingEntry, isSaving, saveJob,
                 timelineEntries, deleteJob, usedIds>>
  /\ UNCHANGED <<dbVars, exportState, fnVars, tagInput, localStorage, settings>>

\* journalDB.update settles: the list takes updatedEntry and the toast is
\* shown, or the catch block runs; finally the id leaves summarizingEntries.
Summarized(id) ==
  /\ summaryJobs[id].pc = "updating"
  /\ calls[summaryJobs[id].slot].pc \in {"resolved", "rejected"}
  /\ Return(summaryJobs[id].slot)
  /\ IF calls[summaryJobs[id].slot].pc = "resolved"
       THEN /\ timelineEntries' = Replaced(timelineEntries, summaryJobs[id].entry[1])
            /\ toast' = "Entry summarized"
       ELSE /\ toast' = "Summarization failed"
            /\ UNCHANGED timelineEntries
  /\ summaryJobs' = [summaryJobs EXCEPT ![id] = NoSummaryJob]
  /\ summarizingEntries' = summarizingEntries \ {id}
  /\ UNCHANGED <<page, pageLoad, editingEntry, isSaving, saveJob, deleteJob,
                 usedIds>>
  /\ UNCHANGED <<exportState, fnVars, widgetVars>>

\* handleDelete up to `await journalDB.delete(entryId)`; nothing happens
\* when confirm() is answered with Cancel.
HandleDelete(c, i, confirmed) ==
  /\ page = "timeline"
  /\ i \in 1..Len(timelineEntries)
  /\ deleteJob.pc = "idle"
  /\ IF confirmed
       THEN /\ CanCall
            /\ Delete(c, timelineEntries[i].id)
            /\ deleteJob' = [pc |-> "deleting", slot |-> c,
                             id |-> <<timelineEntries[i].id>>]
       ELSE UNCHANGED <<dbVars, deleteJob>>
  /\ toast' = ""
  /\ UNCHANGED <<page, pageLoad, editingEntry, isSaving, saveJob,
                 timelineEntries, summarizingEntries, summaryJobs, usedIds>>
  /\ UNCHANGED <<exportState, fnVars, widgetVars>>

DeletedWhateverTheOutcome ==
  /\ deleteJob.pc = "deleting"
  /\ calls[deleteJob.slot].pc \in {"resolved", "rejected"}
  /\ Return(deleteJob.slot)
  /\ timelineEntries' = WithoutId(timelineEntries, deleteJob.id[1])
  /\ toast' = IF calls[deleteJob.slot].pc = "resolved" THEN "Entry deleted"
                                                       ELSE "Delete failed"
  /\ deleteJob' = NoDelete
  /\ UNCHANGED <<page, pageLoad, editingEntry, isSaving, saveJob,
                 summarizingEntries, summaryJobs, usedIds>>
  /\ UNCHANGED <<exportState, fnVars, widgetVars>>

\* journalDB.delete settles: the entry leaves the list, or the catch block.
Deleted ==
  /\ deleteJob.pc = "deleting"
  /\ calls[deleteJob.slot].pc \in {"resolved", "rejected"}
  /\ Return(deleteJob.slot)
  /\ IF calls[deleteJob.slot].pc = "resolved"
       THEN /\ timelineEntries' = WithoutId(timelineEntries, deleteJob.id[1])
            /\ toast' = "Entry deleted"
       ELSE /\ toast' = "Delete failed"
            /\ UNCHANGED timelineEntries
  /\ deleteJob' = NoDelete
  /\ UNCHANGED <<page, pageLoad, editingEntry, isSaving, saveJob,
                 summarizingEntries, summaryJobs, usedIds>>
  /\ UNCHANGED <<exportState, fnVars, widgetVars>>

\* ------------------------------------------------------- the Settings page
\* What the user can put into the API key input.
TypedKeys == {"", " ", " sk-1 "}

\* What fetch does for the weekly digest.
DigestNetworks ==
  {[kind |-> "unreachable", status |-> 0, content |-> <<>>],
   [kind |-> "status", status |-> 401, content |-> <<>>],
   [kind |-> "ok", status |-> 200, content |-> <<>>],
   [kind |-> "ok", status |-> 200, content |-> <<" ## Weekly Overview\n">>]}

\* compileWeeklyDigest(entries): the trimmed completion; any failure of
\* chatCompletion is replaced by its own error.
CompileWeeklyDigest(weeklyEntries, apiKey, network) ==
  IF Len(weeklyEntries) = 0
    THEN [threw |-> FALSE, message |-> "", requests |-> 0,
          text |-> "No entries found for the past week."]
  ELSE IF ChatCompletion(apiKey, network).threw
    THEN Threw("Failed to generate weekly digest - check your API key and connection",
               ChatCompletion(apiKey, network).requests)
  ELSE [ChatCompletion(apiKey, network) EXCEPT !.text = Trim(@)]

\* What a step of Settings leaves alone on the other components.
SettingsFrame ==
  UNCHANGED <<exportState, fnVars, tagInput, page, editingEntry, isSaving,
              saveJob, timelineEntries, summarizingEntries, summaryJobs,
              deleteJob, usedIds>>

\* The mount effect: loadStats() up to `await journalDB.getStats()`, then
\* the stored key, if any, is put into the input.
SettingsMount(c) ==
  /\ page = "settings"
  /\ pageLoad.pc = "mounting"
  /\ CanCall
  /\ GetStats(c)
  /\ pageLoad' = NoPageLoad
  /\ settings' = [settings EXCEPT
       !.loading = TRUE,
       !.statsJob = [NoSettingsJob EXCEPT !.pc = "loading", !.slot = c,
                                          !.from = "mount"],
       !.apiKey = IF localStorage # <<>> /\ localStorage[1] # ""
                    THEN localStorage[1] ELSE @]
  /\ toast' = ""
  /\ UNCHANGED <<localStorage, requests>>
  /\ SettingsFrame

\* loadStats after its await: setStats or the catch block's toast, then the
\* finally block.  When handleClearAll awaited it, that handler goes on:
\* its toast, then its finally block.
StatsLoaded ==
  /\ settings.statsJob.pc = "loading"
  /\ calls[settings.statsJob.slot].pc \in {"resolved", "rejected"}
  /\ Return(settings.statsJob.slot)
  /\ settings' = [settings EXCEPT
       !.stats = IF calls[settings.statsJob.slot].pc = "resolved"
                   THEN calls[settings.statsJob.slot].stats ELSE @,
       !.loading = FALSE,
       !.statsJob = NoSettingsJob,
       !.clearing = IF settings.statsJob.from = "clear" THEN FALSE ELSE @,
       !.clearJob = IF settings.statsJob.from = "clear" THEN NoSettingsJob ELSE @]
  /\ toast' = IF settings.statsJob.from = "clear" THEN "Data cleared"
              ELSE IF calls[settings.statsJob.slot].pc = "rejected"
                THEN "Stats loading failed"
              ELSE ""
  /\ UNCHANGED <<pageLoad, localStorage, requests>>
  /\ SettingsFrame

\* handleClearAll up to `await journalDB.clear()`.
HandleClearAll(c) ==
  /\ page = "settings"
  /\ pageLoad.pc = "idle"
  /\ settings.clearJob.pc = "idle"
  /\ CanCall
  /\ Clear(c)
  /\ settings' = [settings EXCEPT
       !.clearing = TRUE,
       !.clearJob = [NoSettingsJob EXCEPT !.pc = "clearing", !.slot = c]]
  /\ toast' = ""
  /\ UNCHANGED <<pageLoad, localStorage, requests>>
  /\ SettingsFrame

\* journalDB.clear settles: handleClearAll goes on to `await loadStats()`
\* (setLoading(true), journalDB.getStats), or its catch block shows the toast
\* and its finally block runs.
ClearSettled ==
  /\ settings.clearJob.pc = "clearing"
  /\ calls[settings.clearJob.slot].pc \in {"resolved", "rejected"}
  /\ IF calls[settings.clearJob.slot].pc = "resolved"
       THEN /\ Begin(settings.clearJob.slot, "getStats", <<>>, <<>>)
            /\ settings' = [settings EXCEPT
                 !.loading = TRUE,
                 !.clearJob.pc = "reloading",
                 !.statsJob = [NoSettingsJob EXCEPT
                                 !.pc = "loading",
                                 !.slot = settings.clearJob.slot,
                                 !.from = "clear"]]
            /\ toast' = ""
       ELSE /\ Return(settings.clearJob.slot)
            /\ settings' = [settings EXCEPT !.clearing = FALSE,
                                            !.clearJob = NoSettingsJob]
            /\ toast' = "Clear failed"
  /\ UNCHANGED <<pageLoad, localStorage, requests>>
  /\ SettingsFrame

\* onChange of the API key input: setApiKey(e.target.value).
TypeApiKey(value) ==
  /\ page = "settings"
  /\ pageLoad.pc = "idle"
  /\ settings' = [settings EXCEPT !.apiKey = value]
  /\ toast' = ""
  /\ UNCHANGED <<dbVars, pageLoad, localStorage, requests>>
  /\ SettingsFrame

\* The Show / Hide button: setShowApiKey(!showApiKey).
ToggleShowApiKey ==
  /\ page = "settings"
  /\ pageLoad.pc = "idle"
  /\ settings' = [settings EXCEPT !.showApiKey = ~@]
  /\ toast' = ""
  /\ UNCHANGED <<dbVars, pageLoad, localStorage, requests>>
  /\ SettingsFrame

\* handleSaveApiKey of a render whose apiKey is the given one: it stores
\* the trimmed key, or removes the item when the key is blank.
HandleSaveApiKey(apiKey) ==
  IF Trim(apiKey) # ""
    THEN /\ localStorage' = <<Trim(apiKey)>>
         /\ toast' = "API Key saved"
    ELSE /\ localStorage' = <<>>
         /\ toast' = "API Key cleared"

\* The Save Key button: onClick={handleSaveApiKey}.
ClickSaveKey ==
  /\ page = "settings"
  /\ pageLoad.pc = "idle"
  /\ HandleSaveApiKey(settings.apiKey)
  /\ UNCHANGED <<dbVars, pageLoad, requests, settings>>
  /\ SettingsFrame

\* The Clear button: onClick={() => { setApiKey(''); handleSaveApiKey(); }}.
\* handleSaveApiKey is the function of the render in which the button was
\* pressed: it reads that render's apiKey, not the '' just set.
ClickClear ==
  /\ page = "settings"
  /\ pageLoad.pc = "idle"
  /\ settings' = [settings EXCEPT !.apiKey = ""]
  /\ HandleSaveApiKey(settings.apiKey)
  /\ UNCHANGED <<dbVars, pageLoad, requests>>
  /\ SettingsFrame

\* generateGptDigest up to `await journalDB.getAll()`.
GenerateGptDigest(c) ==
  /\ page = "settings"
  /\ pageLoad.pc = "idle"
  /\ settings.digestJob.pc = "idle"
  /\ CanCall
  /\ GetAll(c)
  /\ settings' = [settings EXCEPT
       !.gptDigestLoading = TRUE,
       !.digestJob = [NoSettingsJob EXCEPT !.pc = "loading", !.slot = c]]
  /\ toast' = ""
  /\ UNCHANGED <<pageLoad, localStorage, requests>>
  /\ SettingsFrame

\* getAll settles: the entries created since weekAgo are kept; with none the
\* handler returns after its toast, a rejection runs the catch block; else
\* compileWeeklyDigest is awaited.
DigestEntriesLoaded(weekAgo) ==
  /\ settings.digestJob.pc = "loading"
  /\ calls[settings.digestJob.slot].pc \in {"resolved", "rejected"}
  /\ Return(settings.digestJob.slot)
  /\ LET weeklyEntries == SelectSeq(calls[settings.digestJob.slot].entries,
                                    LAMBDA entry : entry.createdAt >= weekAgo)
     IN IF calls[settings.digestJob.slot].pc = "rejected"
          THEN /\ toast' = "GPT Digest failed"
               /\ settings' = [settings EXCEPT !.gptDigestLoading = FALSE,
                                               !.digestJob = NoSettingsJob]
        ELSE IF Len(weeklyEntries) = 0
          THEN /\ toast' = "No entries found"
               /\ settings' = [settings EXCEPT !.gptDigestLoading = FALSE,
                                               !.digestJob = NoSettingsJob]
        ELSE /\ toast' = ""
             /\ settings' = [settings EXCEPT
                  !.digestJob = [NoSettingsJob EXCEPT !.pc = "compiling",
                                                     !.entries = weeklyEntries]]
  /\ UNCHANGED <<pageLoad, localStorage, requests>>
  /\ SettingsFrame

\* compileWeeklyDigest settles: setGptDigest(digest), or the catch block's
\* toast with the error's message; then the finally block.
DigestCompiled(network) ==
  /\ settings.digestJob.pc = "compiling"
  /\ LET digest == CompileWeeklyDigest(settings.digestJob.entries, localStorage,
                                       network)
     IN /\ requests' = digest.requests
        /\ toast' = IF digest.threw THEN "GPT Digest failed: " \o digest.message
                                    ELSE ""
        /\ settings' = [settings EXCEPT
             !.gptDigest = IF digest.threw THEN @ ELSE digest.text,
             !.gptDigestLoading = FALSE,
             !.digestJob = NoSettingsJob]
  /\ UNCHANGED <<dbVars, pageLoad, localStorage>>
  /\ SettingsFrame

\* The storage engine serves the pending requests of Settings.
SettingsStorage ==
  /\ \E c \in Slots :
       \/ OpenSuccess(c)
       \/ OpenError(c)
       \/ GetAllSuccess(c)
       \/ GetStatsSuccess(c)
       \/ ClearSuccess(c)
       \/ RequestError(c)
  /\ UNCHANGED <<exportVars, journalVars, fnVars, widgetVars>>

\* Settings opened over a journal of 0..MaxIds entries, with or without a
\* stored API key.
InitSettings ==
  /\ db = "null"
  /\ objectStore \in {{SampleEntry(i) : i \in 1..n} : n \in 0..MaxIds}
  /\ calls = [c \in Slots |-> IdleCall]
  /\ openQueue = <<>>
  /\ txQueue = <<>>
  /\ lastWrite = NoWrite
  /\ scenario = NoScenario
  /\ InitExport
  /\ InitFn
  /\ page = "settings"
  /\ pageLoad = [pc |-> "mounting", slot |-> 0, id |-> <<>>]
  /\ editingEntry = <<>>
  /\ isSaving = FALSE
  /\ saveJob = NoSave
  /\ timelineEntries = <<>>
  /\ summarizingEntries = {}
  /\ summaryJobs = [id \in Ids |-> NoSummaryJob]
  /\ deleteJob = NoDelete
  /\ usedIds = Ids
  /\ tagInput = [tags |-> <<>>, inputValue |-> "", showSuggestions |-> FALSE]
  /\ localStorage \in ApiKeys
  /\ requests = 0
  /\ settings = InitialSettings

NextSettings ==
  \/ \E c \in Slots : SettingsMount(c)
  \/ StatsLoaded
  \/ \E c \in Slots : HandleClearAll(c)
  \/ ClearSettled
  \/ \E value \in TypedKeys : TypeApiKey(value)
  \/ ToggleShowApiKey
  \/ ClickSaveKey
  \/ ClickClear
  \/ \E c \in Slots : GenerateGptDigest(c)
  \/ \E weekAgo \in 1..(MaxTime + 1) : DigestEntriesLoaded(weekAgo)
  \/ \E network \in DigestNetworks : DigestCompiled(network)
  \/ SettingsStorage

SpecSettings == InitSettings /\ [][NextSettings]_vars

\* ------------------------------------- the form and the Timeline together
\* The links of the pages: "/" and "/timeline" everywhere, `/?id=${entry.id}`
\* on each entry of the Timeline.
FollowLink ==
  \/ Navigate("timeline", <<>>)
  \/ Navigate("entry", <<>>)
  \/ \E i \in 1..Len(timelineEntries) :
       /\ page = "timeline"
       /\ Navigate("entry", <<timelineEntries[i].id>>)

\* The storage engine serves the pending requests of the pages.
Storage ==
  /\ \E c \in Slots :
       \/ OpenSuccess(c)
       \/ OpenError(c)
       \/ SaveSuccess(c)
       \/ GetAllSuccess(c)
       \/ GetByIdSuccess(c)
       \/ DeleteSuccess(c)
       \/ RequestError(c)
  /\ UNCHANGED <<exportVars, journalVars, fnVars, widgetVars>>

NextJournal ==
  \/ FollowLink
  \/ \E c \in Slots : Mount(c)
  \/ Mounted
  \/ \E c \in Slots, id \in Ids, content \in FormContents, tags \in FormTags,
        audioBlob \in FormAudio, transcribeAfterSave \in BOOLEAN, now \in Times :
       \/ ClickSave(c, id, content, tags, audioBlob, transcribeAfterSave, now)
       \/ InvokeHandleSave(c, id, content, tags, audioBlob, transcribeAfterSave, now)
  \/ \E c \in Slots, network \in TranscriptionNetworks : Transcribed(c, network)
  \/ Saved
  \/ \E i \in 1..MaxIds : HandleSummarizeEntry(i)
  \/ \E c \in Slots, id \in Ids, network \in TimelineNetworks, now \in Times :
       SummariseResolved(c, id, network, now)
  \/ \E id \in Ids, network \in TimelineNetworks : SummariseRejected(id, network)
  \/ \E id \in Ids : Summarized(id)
  \/ \E c \in Slots, i \in 1..MaxIds, confirmed \in BOOLEAN :
       HandleDelete(c, i, confirmed)
  \/ Deleted
  \/ Storage

\* The application starts on the form, with or without a stored API key.
InitJournalApp ==
  /\ InitDB
  /\ InitExport
  /\ InitJournal
  /\ InitFn
  /\ tagInput = [tags |-> <<>>, inputValue |-> "", showSuggestions |-> FALSE]
  /\ localStorage \in ApiKeys
  /\ requests = 0
  /\ settings = InitialSettings

SpecJournal == InitJournalApp /\ [][NextJournal]_vars

\* ------------------- the pages with their AI features: the form's
\* transcription, the Timeline's summaries, the GPT digest of Settings
\* The link to "/settings" of the navigation bar.
FollowSettingsLink == Navigate("settings", <<>>)

\* The storage engine serves getStats of the mount effect of Settings.
StatsStorage ==
  /\ \E c \in Slots : GetStatsSuccess(c)
  /\ UNCHANGED <<exportVars, journalVars, fnVars, widgetVars>>

NextAI ==
  \/ NextJournal
  \/ FollowSettingsLink
  \/ \E c \in Slots : SettingsMount(c)
  \/ StatsLoaded
  \/ \E c \in Slots : GenerateGptDigest(c)
  \/ \E weekAgo \in 1..(MaxTime + 1) : DigestEntriesLoaded(weekAgo)
  \/ \E network \in DigestNetworks : DigestCompiled(network)
  \/ StatsStorage

SpecAI == InitJournalApp /\ [][NextAI]_vars

\* ------------------------- the handlers that set a busy flag, together
\* The dialog is modal: the page behind it takes no input while it is open.
\* What the user does on the pages: links, the Save button with "transcribe
\* after save" ticked, Summarize, and "Clear All Data" of Settings.
BusyInput ==
  /\ ~isOpen
  /\ \/ FollowLink
     \/ FollowSettingsLink
     \/ \E c \in Slots, content \in {"", " note "}, audioBlob \in FormAudio :
          \/ ClickSave(c, 1, content, <<>>, audioBlob, TRUE, 1)
          \/ InvokeHandleSave(c, 1, content, <<>>, audioBlob, TRUE, 1)
     \/ \E i \in 1..MaxIds : HandleSummarizeEntry(i)
     \/ \E c \in Slots : HandleClearAll(c)

\* What the user does in the dialog: it is opened from "Export Data" of
\* Settings once that page has settled, it is closed once its own load and
\* export have settled, the selection is toggled, Copy and Download are
\* pressed.
BusyDialogInput ==
  \/ /\ page = "settings"
     /\ Quiescent
     /\ HandleOpen
  \/ /\ ~loading
     /\ exportJob.pc = "idle"
     /\ HandleClose
  \/ HandleSelectAll
  \/ \E a \in {"copy", "download"} : ClickExport(a)
  \/ \E a \in {"copy", "download"} : InvokeHandleExport(a)

\* The mount effects of the three pages.
BusyMount ==
  \/ \E c \in Slots : Mount(c)
  \/ \E c \in Slots : SettingsMount(c)

\* What fetch does here: it rejects, or it answers with the text asked for.
BusyTranscriptionNetworks ==
  {network \in TranscriptionNetworks :
     network.kind = "unreachable" \/ network.content # <<>>}

BusyTimelineNetworks ==
  {network \in TimelineNetworks :
     \/ network.kind = "unreachable"
     \/ network.content = <<"{\"highlights\":[\"insight\"]}">>}

\* fetch settles for the transcription or the summary.
BusyTranscribed ==
  \E c \in Slots, network \in BusyTranscriptionNetworks : Transcribed(c, network)

BusySummarised ==
  \/ \E c \in Slots, id \in Ids, network \in BusyTimelineNetworks :
       SummariseResolved(c, id, network, 1)
  \/ \E id \in Ids, network \in BusyTimelineNetworks :
       SummariseRejected(id, network)

\* getAll of the dialog's loadEntries settles.
BusyLoaded ==
  \/ LoadEntriesRejected
  \/ LoadEntriesResolved

\* The awaits of handleExport settle.
BusyExported ==
  \/ ExportFailed
  \/ ExportCopied
  \/ \E failed \in SUBSET Ids : ExportSerialized(failed)

\* The storage engine serves every pending request.
BusyStorage ==
  /\ \E c \in Slots :
       \/ OpenSuccess(c)
       \/ OpenError(c)
       \/ SaveSuccess(c)
       \/ GetAllSuccess(c)
       \/ GetByIdSuccess(c)
       \/ GetStatsSuccess(c)
       \/ ClearSuccess(c)
       \/ RequestError(c)
  /\ UNCHANGED <<exportVars, journalVars, fnVars, widgetVars>>

\* window.location.href = '/timeline' after an update takes effect.
BusyNavigated ==
  /\ pageLoad.pc = "navigating"
  /\ Navigate("timeline", <<>>)

NextBusy ==
  \/ BusyInput
  \/ BusyDialogInput
  \/ BusyMount
  \/ Mounted
  \/ BusyTranscribed
  \/ Saved
  \/ BusySummarised
  \/ \E id \in Ids : Summarized(id)
  \/ StatsLoaded
  \/ ClearSettled
  \/ BusyLoaded
  \/ BusyExported
  \/ BusyStorage
  \/ BusyNavigated

\* handleExport is suspended at one of its awaits: exactly the states in
\* which BusyExported is enabled.
ExportAwaited == exportJob.pc \in {"serializing", "encrypting", "copying"}

\* Every request to the storage engine and to the network settles, and
\* every continuation that is ready runs: the event loop starves none.
\* The weak fairness of BusyExported is written with its enabling condition
\* spelled out as ExportAwaited.
FairBusy ==
  /\ SF_vars(BusyMount)
  /\ WF_vars(Mounted)
  /\ SF_vars(BusyTranscribed)
  /\ WF_vars(Saved)
  /\ WF_vars(BusySummarised)
  /\ \A id \in Ids : WF_vars(Summarized(id))
  /\ WF_vars(StatsLoaded)
  /\ WF_vars(ClearSettled)
  /\ WF_vars(BusyLoaded)
  /\ (<>[]ExportAwaited => []<><<BusyExported>>_vars)
  /\ WF_vars(BusyStorage)
  /\ WF_vars(BusyNavigated)

SpecBusy == InitJournalApp /\ [][NextBusy]_vars /\ FairBusy

\* ------------------------------------------- the Timeline on its own
\* The Timeline is opened over a journal of MaxIds entries, with or without
\* a stored API key.
InitTimeline ==
  /\ db = "null"
  /\ objectStore = {SampleEntry(i) : i \in Ids}
  /\ calls = [c \in Slots |-> IdleCall]
  /\ openQueue = <<>>
  /\ txQueue = <<>>
  /\ lastWrite = NoWrite
  /\ scenario = NoScenario
  /\ InitExport
  /\ InitFn
  /\ page = "timeline"
  /\ pageLoad = [pc |-> "mounting", slot |-> 0, id |-> <<>>]
  /\ editingEntry = <<>>
  /\ isSaving = FALSE
  /\ saveJob = NoSave
  /\ timelineEntries = <<>>
  /\ summarizingEntries = {}
  /\ summaryJobs = [id \in Ids |-> NoSummaryJob]
  /\ deleteJob = NoDelete
  /\ usedIds = Ids
  /\ tagInput = [tags |-> <<>>, inputValue |-> "", showSuggestions |-> FALSE]
  /\ localStorage \in ApiKeys
  /\ requests = 0
  /\ settings = InitialSettings

NextTimeline ==
  \/ \E c \in Slots : Mount(c)
  \/ Mounted
  \/ \E i \in 1..MaxIds : HandleSummarizeEntry(i)
  \/ \E c \in Slots, id \in Ids, network \in TimelineNetworks, now \in Times :
       SummariseResolved(c, id, network, now)
  \/ \E id \in Ids, network \in TimelineNetworks : SummariseRejected(id, network)
  \/ \E id \in Ids : Summarized(id)
  \/ \E c \in Slots, i \in 1..MaxIds, confirmed \in BOOLEAN :
       HandleDelete(c, i, confirmed)
  \/ Deleted
  \/ Storage

SpecTimeline == InitTimeline /\ [][NextTimeline]_vars

\* ------------------------------- the serialization on its own
\* The journal entries serialized here: the i-th is, in turn, a text note of
\* two sentences with a tag, a voice note with its transcript, a summarised
\* note with blank fragments, two tags and audio, and a one-word note.
SampleSummary ==
  [highlights |-> <<"first", "second">>, decisions |-> <<>>,
   actions |-> <<"call">>, risks |-> <<>>, mood |-> "calm"]

SerialEntry(i) ==
  LET base == NewEntry(i, "", ((i - 1) % 9) + 1, ((i - 1) % 9) + 1, <<>>)
  IN CASE i % 4 = 1 -> [base EXCEPT !.content = "Hello world. Second sentence.",
                                    !.tags = <<"Work">>]
       [] i % 4 = 2 -> [base EXCEPT !.audioBlob = <<3>>,
                                    !.transcript = <<"spoken words">>]
       [] i % 4 = 3 -> [base EXCEPT !.content = "a. .b.c.d.e.f",
                                    !.tags = <<"Work", "Idea">>,
                                    !.summary = <<SampleSummary>>,
                                    !.audioBlob = <<4>>]
       [] i % 4 = 0 -> [base EXCEPT !.content = "note"]

\* The selections: the first n entries, and each entry alone.
Selections ==
  {[i \in 1..n |-> SerialEntry(i)] : n \in 0..MaxSelected}
    \cup {<<SerialEntry(i)>> : i \in 1..MaxSelected}

AllOptions ==
  [format : Formats, includeAudio : BOOLEAN, includeTags : BOOLEAN,
   encrypt : BOOLEAN]

\* The ids whose blobToBase64 is awaited for these entries and options.
Converted(list, options) ==
  {e.id : e \in {x \in Range(list) : options.includeAudio /\ x.audioBlob # <<>>}}

InitSerialize ==
  /\ InitDB
  /\ InitExport
  /\ InitJournal
  /\ InitWidgets
  /\ args \in [selected : Selections, options : AllOptions,
               passphrase : Passphrases]
  /\ returned = <<>>

\* handleExport's serialization of args.selected, and its encryption when the
\* option is set and the passphrase not empty; applied once or twice.
Serialize(failed, salt, iv) ==
  /\ Len(returned) < MaxRuns
  /\ returned # <<>> => returned[1].fn = "handleExport"
  /\ failed \subseteq Converted(args.selected, args.options)
  /\ LET plain == PlainContent(args.selected, args.options, failed)
         encrypts == args.options.encrypt /\ args.passphrase # ""
     IN /\ encrypts \/ (salt = Least(RandomBytes) /\ iv = Least(RandomBytes))
        /\ returned' = Append(returned,
             [fn |-> "handleExport", failed |-> failed, text |-> plain.text,
              records |-> plain.records,
              content |-> IF encrypts
                            THEN EncryptedContent(plain, args.passphrase,
                                   [i \in 1..SaltLength |-> salt],
                                   [i \in 1..IvLength |-> iv])
                            ELSE plain])
  /\ UNCHANGED <<args, dbVars, exportVars, journalVars, widgetVars>>

\* generatePreview(args.selected, args.options), applied once.
Preview(failed) ==
  /\ returned = <<>>
  /\ failed \subseteq Converted(Slice(args.selected, 3), args.options)
  /\ returned' = <<[fn |-> "generatePreview", failed |-> failed,
                    text |-> PreviewText(args.selected, args.options,
                                         args.passphrase, failed),
                    records |-> [i \in 1..Len(Slice(args.selected, 3)) |->
                                   PreviewDataOf(args.selected[i], args.options, failed)],
                    content |-> <<>>]>>
  /\ UNCHANGED <<args, dbVars, exportVars, journalVars, widgetVars>>

NextSerialize ==
  \/ \E failed \in SUBSET (1..MaxSelected), salt \in RandomBytes, iv \in RandomBytes :
       Serialize(failed, salt, iv)
  \/ \E failed \in SUBSET (1..MaxSelected) : Preview(failed)

SpecSerialize == InitSerialize /\ [][NextSerialize]_vars

\* ------------------------------------------- encryptData on its own
Plaintexts == {"", "[]", "# 2024-01-01\n\nnote\n\n---\n"}

CryptoPassphrases == {"pw", "px", "p w"}

InitCrypto ==
  /\ InitDB
  /\ InitExport
  /\ InitJournal
  /\ InitWidgets
  /\ args \in [data : Plaintexts, passphrase : CryptoPassphrases]
  /\ returned = <<>>

\* encryptData(args.data, args.passphrase), drawing its salt and iv.
Encrypt(salt, iv) ==
  /\ returned = <<>>
  /\ returned' = <<[salt |-> salt, iv |-> iv,
                    envelope |-> EncryptData(args.data, args.passphrase, salt, iv)]>>
  /\ UNCHANGED <<args, dbVars, exportVars, journalVars, widgetVars>>

\* The envelope is opened with a passphrase.
Decrypt(pass) ==
  /\ Len(returned) = 1
  /\ returned' = Append(returned,
                        [passphrase |-> pass,
                         result |-> DecryptData(returned[1].envelope, pass)])
  /\ UNCHANGED <<args, dbVars, exportVars, journalVars, widgetVars>>

NextCrypto ==
  \/ \E salt \in Salts, iv \in Ivs : Encrypt(salt, iv)
  \/ \E pass \in CryptoPassphrases : Decrypt(pass)

SpecCrypto == InitCrypto /\ [][NextCrypto]_vars

\* ------------------------------------------------------ TagInput.tsx
\* suggestions = ['Personal', 'Work', 'Family', 'Health', 'Travel', 'Ideas']
Suggestions == <<"Personal", "Work", "Family", "Health", "Travel", "Ideas">>

\* What the user can have typed into the input.
InputValues == {"", " ", "Work", " Work ", "work", "wo", "Mood"}

\* The keys handleKeyDown tells apart: Enter, the comma, Backspace, others.
Keys == {"Enter", ",", "Backspace", "a"}

UpperCase == "ABCDEFGHIJKLMNOPQRSTUVWXYZ"

LowerCase == "abcdefghijklmnopqrstuvwxyz"

\* String.prototype.toLowerCase, on the letters of the basic alphabet.
RECURSIVE ToLowerCase(_)
ToLowerCase(s) ==
  IF s = "" THEN ""
  ELSE LET ch == SubSeq(s, 1, 1)
           at == {i \in 1..Len(UpperCase) : SubSeq(UpperCase, i, i) = ch}
       IN (IF at = {} THEN ch
           ELSE LET i == CHOOSE i \in at : TRUE IN SubSeq(LowerCase, i, i))
            \o ToLowerCase(SubSeq(s, 2, Len(s)))

AddTagUntrimmedTest(state, tag) ==
  IF Trim(tag) # "" /\ tag \notin Range(state.tags) /\ Len(state.tags) < MaxTags
    THEN [tags |-> Append(state.tags, Trim(tag)), inputValue |-> "",
          showSuggestions |-> FALSE]
    ELSE state

\* addTag: the trimmed tag is appended unless it is empty or already there.
\* The list is kept to MaxTags tags here.
AddTag(state, tag) ==
  IF Trim(tag) # "" /\ Trim(tag) \notin Range(state.tags)
     /\ Len(state.tags) < MaxTags
    THEN [tags |-> Append(state.tags, Trim(tag)), inputValue |-> "",
          showSuggestions |-> FALSE]
    ELSE state

\* removeTag: tags.filter(tag => tag !== tagToRemove)
RemoveTag(state, tagToRemove) ==
  [state EXCEPT !.tags = SelectSeq(state.tags, LAMBDA tag : tag # tagToRemove)]

\* handleKeyDown
HandleKeyDown(state, key) ==
  IF key \in {"Enter", ","}
    THEN AddTag(state, state.inputValue)
    ELSE IF key = "Backspace" /\ state.inputValue = "" /\ Len(state.tags) > 0
           THEN RemoveTag(state, state.tags[Len(state.tags)])
           ELSE state

\* filteredSuggestions: the suggestions not yet among the tags that contain
\* the input, whatever the case of the letters.
FilteredSuggestions(state) ==
  SelectSeq(Suggestions,
            LAMBDA suggestion :
              /\ suggestion \notin Range(state.tags)
              /\ Includes(ToLowerCase(suggestion), ToLowerCase(state.inputValue)))

\* onChange of the input: setInputValue(e.target.value)
SetInputValue(value) ==
  /\ tagInput' = [tagInput EXCEPT !.inputValue = value]
  /\ UNCHANGED <<dbVars, exportVars, journalVars, fnVars, localStorage, requests, settings>>

\* onFocus, and onBlur's timer.
SetShowSuggestions(show) ==
  /\ tagInput' = [tagInput EXCEPT !.showSuggestions = show]
  /\ UNCHANGED <<dbVars, exportVars, journalVars, fnVars, localStorage, requests, settings>>

\* onKeyDown of the input.
KeyDown(key) ==
  /\ tagInput' = HandleKeyDown(tagInput, key)
  /\ UNCHANGED <<dbVars, exportVars, journalVars, fnVars, localStorage, requests, settings>>

\* The X button of a tag: removeTag(tag).
ClickRemove(i) ==
  /\ i \in 1..Len(tagInput.tags)
  /\ tagInput' = RemoveTag(tagInput, tagInput.tags[i])
  /\ UNCHANGED <<dbVars, exportVars, journalVars, fnVars, localStorage, requests, settings>>

\* A quick tag, one of the first six shown: addTag(suggestion).
ClickSuggestion(i) ==
  /\ tagInput.showSuggestions
  /\ i \in 1..Len(Slice(FilteredSuggestions(tagInput), Len(Suggestions)))
  /\ tagInput' = AddTag(tagInput, FilteredSuggestions(tagInput)[i])
  /\ UNCHANGED <<dbVars, exportVars, journalVars, fnVars, localStorage, requests, settings>>

\* The form mounts TagInput with no tags, or with the tags of the entry
\* that is edited.
InitTagInput ==
  /\ InitDB
  /\ InitExport
  /\ InitJournal
  /\ InitFn
  /\ tagInput \in {[tags |-> t, inputValue |-> "", showSuggestions |-> FALSE] :
                     t \in FormTags}
  /\ localStorage = <<>>
  /\ requests = 0
  /\ settings = InitialSettings

NextTagInput ==
  \/ \E value \in InputValues : SetInputValue(value)
  \/ \E show \in BOOLEAN : SetShowSuggestions(show)
  \/ \E key \in Keys : KeyDown(key)
  \/ \E i \in 1..MaxTags : ClickRemove(i)
  \/ \E i \in 1..Len(Suggestions) : ClickSuggestion(i)

SpecTagInput == InitTagInput /\ [][NextTagInput]_vars

\* ------------------------------------------------------------ properties
Resolved(c, op) == calls[c].pc = "resolved" /\ calls[c].op = op

IdsOf(store) == {r.id : r \in store}

\* C1: the store holds at most one entry per id, and once save(e) has
\* resolved the entry stored under e.id is exactly e, a previous entry of
\* that id is gone and the entries of every other id are as they were.
C1_SaveInsertsOrOverwrites ==
  /\ \A r, s \in objectStore : r.id = s.id => r = s
  /\ \A c \in Slots : Resolved(c, "save") =>
       LET e == calls[c].entry[1] IN
         /\ e \in objectStore
         /\ \A r \in objectStore : r.id = e.id => r = e
         /\ \A r \in objectStore \cup calls[c].before :
              r.id # e.id => (r \in objectStore <=> r \in calls[c].before)

\* A save that replaced another entry of its id and left another id alone.
C1_Witness ==
  \E c \in Slots :
    /\ Resolved(c, "save")
    /\ \E r \in calls[c].before :
         r.id = calls[c].entry[1].id /\ r # calls[c].entry[1]
    /\ \E r \in objectStore : r.id # calls[c].entry[1].id

\* C2: a resolved getAll returns every stored entry, each once, in
\* descending order of entry.timestamp.
C2_GetAllSortedDescending ==
  \A c \in Slots : Resolved(c, "getAll") =>
    LET res == calls[c].entries IN
      /\ Range(res) = objectStore
      /\ Len(res) = Cardinality(objectStore)
      /\ \A i, j \in 1..Len(res) : i < j => res[i].timestamp >= res[j].timestamp

\* A getAll of two entries of different timestamps, the older one saved last.
C2_Witness ==
  \E c \in Slots :
    /\ Resolved(c, "getAll")
    /\ Len(calls[c].entries) = 2
    /\ calls[c].entries[1].timestamp > calls[c].entries[2].timestamp
    /\ lastWrite.op = "save"
    /\ lastWrite.entry[1] = calls[c].entries[2]

\* C3: getById(id) issued after save(e) resolved, e.id = id, resolves with an
\* entry equal to e in every field; getById of an id that is not stored
\* resolves with null, and getById is rejected only by a storage error.
C3_RoundTrip ==
  \A c \in Slots :
    /\ Resolved(c, "getById") /\ calls[c].pred.op = "save"
         /\ calls[c].pred.entry[1].id = calls[c].id[1]
       => calls[c].entries = calls[c].pred.entry
    /\ Resolved(c, "getById") /\ calls[c].id[1] \notin IdsOf(objectStore)
       => calls[c].entries = <<>>
    /\ calls[c].pc = "rejected" /\ calls[c].op = "getById"
       => calls[c].errors = 1

\* A getById that returned the voice note saved just before.
C3_Witness ==
  \E c \in Slots :
    /\ Resolved(c, "getById")
    /\ calls[c].pred.op = "save"
    /\ calls[c].entries = calls[c].pred.entry
    /\ calls[c].entries[1].audioBlob # <<>>

\* C4: a resolved delete(id) removed the entry of that id and nothing else;
\* with no entry of that id the store is as it was, and delete is rejected
\* only by a storage error.
C4_DeleteRemovesExactlyOne ==
  \A c \in Slots :
    /\ Resolved(c, "delete") =>
         /\ \A r \in objectStore \cup calls[c].before :
              r \in objectStore <=> (r \in calls[c].before /\ r.id # calls[c].id[1])
         /\ calls[c].id[1] \notin IdsOf(calls[c].before)
              => objectStore = calls[c].before
    /\ calls[c].pc = "rejected" /\ calls[c].op = "delete" => calls[c].errors = 1

\* A delete that removed the entry of the higher id and kept the other one.
C4_Witness ==
  \E c \in Slots :
    /\ Resolved(c, "delete")
    /\ calls[c].id[1] \in IdsOf(calls[c].before)
    /\ \E r \in objectStore : r.id < calls[c].id[1]

\* C5: with each call awaited before the next is issued, a getAll issued
\* after save(e) resolved contains e, and a getAll issued after delete(id)
\* resolved contains no entry of that id.
C5_SequentialCallsLinearized ==
  \A c \in Slots : Resolved(c, "getAll") =>
    /\ calls[c].pred.op = "save" => calls[c].pred.entry[1] \in Range(calls[c].entries)
    /\ calls[c].pred.op = "delete" =>
         \A i \in 1..Len(calls[c].entries) : calls[c].entries[i].id # calls[c].pred.id[1]

\* A getAll after a save, returning the saved entry and another one.
C5_Witness ==
  \E c \in Slots :
    /\ Resolved(c, "getAll")
    /\ calls[c].pred.op = "save"
    /\ Len(calls[c].entries) = 2

\* C6: after K entries were saved into the empty store and one of them was
\* deleted, getStats().totalEntries is K - 1.
C6_StatsAfterSavesAndDelete ==
  \A c \in Slots :
    Resolved(c, "getStats") /\ scenario.phase = "deleted" =>
      calls[c].stats[1].totalEntries = Cardinality(scenario.saved) - 1

\* getStats after two entries were saved and one of them deleted.
C6_Witness ==
  \E c \in Slots :
    /\ Resolved(c, "getStats")
    /\ scenario.phase = "deleted"
    /\ Cardinality(scenario.saved) = 2
    /\ calls[c].stats[1].totalEntries = 1

IsMin(t, set) == t \in set /\ \A u \in set : t <= u

IsMax(t, set) == t \in set /\ \A u \in set : u <= t

\* C7: a resolved getStats counts the stored entries, gives the least and
\* the greatest createdAt as oldestEntry and newestEntry, gives 0, 0 and no
\* dates for the empty store, and leaves the store as it was.
C7_StatsIsPureAggregate ==
  \A c \in Slots : Resolved(c, "getStats") =>
    LET st == calls[c].stats[1]
        dates == {r.createdAt : r \in objectStore}
    IN /\ st.totalEntries = Cardinality(objectStore)
       /\ objectStore = {} =>
            /\ st.totalEntries = 0
            /\ st.totalStorageSize = 0
            /\ st.oldestEntry = <<>>
            /\ st.newestEntry = <<>>
       /\ objectStore # {} =>
            /\ Len(st.oldestEntry) = 1 /\ IsMin(st.oldestEntry[1], dates)
            /\ Len(st.newestEntry) = 1 /\ IsMax(st.newestEntry[1], dates)
            /\ st.oldestEntry[1] <= st.newestEntry[1]
       /\ objectStore = calls[c].before

\* getStats over two entries whose creation order is the reverse of their
\* display order.
C7_Witness ==
  \E c \in Slots :
    /\ Resolved(c, "getStats")
    /\ calls[c].stats[1].totalEntries = 2
    /\ calls[c].stats[1].oldestEntry[1] < calls[c].stats[1].newestEntry[1]
    /\ \E r, s \in objectStore :
         r.timestamp < s.timestamp /\ r.createdAt > s.createdAt

\* C8: once clear has resolved the store is empty, whatever it held; a
\* getAll issued after it returns the empty list and a getStats issued after
\* it has totalEntries 0.
C8_ClearRemovesAll ==
  \A c \in Slots :
    /\ Resolved(c, "clear") => objectStore = {}
    /\ Resolved(c, "getAll") /\ calls[c].pred.op = "clear" => calls[c].entries = <<>>
    /\ Resolved(c, "getStats") /\ calls[c].pred.op = "clear"
       => calls[c].stats[1].totalEntries = 0

\* A clear of a store that held two entries.
C8_Witness ==
  \E c \in Slots : Resolved(c, "clear") /\ Cardinality(calls[c].before) = 2

\* C9: a call that met a storage error (its open request or its store
\* request failed) is rejected, having met that one error; no call issues
\* more than one open request or more than one store request, none goes on
\* after an error, and a rejected call leaves the stored entries unchanged.
C9_FailureRejectsOnceNoRetry ==
  \A c \in Slots :
    /\ calls[c].opens <= 1 /\ calls[c].reqs <= 1
    /\ calls[c].errors > 0 <=> calls[c].pc = "rejected"
    /\ calls[c].pc = "rejected" =>
         /\ calls[c].errors = 1
         /\ calls[c].cause \in {"open", "request"}
         /\ calls[c].cause = "open" => calls[c].reqs = 0
         /\ objectStore = calls[c].before

\* A save rejected by a request error over a store that holds an entry.
C9_Witness ==
  \E c \in Slots :
    /\ calls[c].pc = "rejected"
    /\ calls[c].op = "save"
    /\ calls[c].cause = "request"
    /\ objectStore # {}
    /\ calls[c].entry[1] \notin objectStore

\* C10: an export started with no entry selected is rejected with the
\* "No entries selected" message and does nothing else: the call leaves no
\* export in progress and the busy flag clear, so that every export that
\* serializes, encrypts, copies or downloads has at least one entry selected,
\* and whatever reaches the clipboard or a download comes from such an export.
C10_EmptySelectionRejected ==
  /\ [][(Len(selectedEntries) = 0 /\ \E a \in {"copy", "download"} : HandleExport(a))
          => /\ toast' = "No entries selected"
             /\ exportJob' = NoJob
             /\ output' = <<>>
             /\ loading' = FALSE]_vars
  /\ [](exportJob.pc # "idle" => Len(exportJob.selected) > 0)
  /\ [](output # <<>> => output[1].selected > 0)
  /\ [](toast = "No entries selected" => exportJob.pc = "idle" /\ output = <<>>)

\* handleExport has just rejected a call made with nothing selected, on a
\* dialog that lists entries.
C10_Witness ==
  /\ toast = "No entries selected"
  /\ isOpen
  /\ Len(entries) > 0
  /\ Len(selectedEntries) = 0
  /\ exportJob.pc = "idle"
  /\ ~loading

\* C11: with the encrypt option on, handleExport called with an empty
\* passphrase, or one that differs from its confirmation, raises the
\* "Passphrase error" toast and starts nothing; so every export in progress
\* with the option on holds a non-empty passphrase, and what such an export
\* hands to the clipboard or to a download is the encrypted envelope, never
\* the plain serialization.
C11_EncryptedExportNeverPlain ==
  /\ [][(/\ Len(selectedEntries) # 0
         /\ exportOptions.encrypt
         /\ (passphrase = "" \/ passphrase # confirmPassphrase)
         /\ \E a \in {"copy", "download"} : HandleExport(a))
          => /\ toast' = "Passphrase error"
             /\ exportJob' = NoJob
             /\ output' = <<>>
             /\ loading' = FALSE]_vars
  /\ [][(exportJob.options.encrypt /\ output' # <<>>)
          => /\ output'[1].content.encrypted
             /\ output'[1].content.key = exportJob.passphrase
             /\ output'[1].content.key # ""]_vars
  /\ [](exportJob.pc # "idle" /\ exportJob.options.encrypt
          => exportJob.passphrase # "")
  /\ [](toast = "Passphrase error" => exportJob.pc = "idle" /\ output = <<>>)

\* An encrypted export has just been written out while the dialog's
\* passphrase and confirmation no longer match.
C11_Witness ==
  /\ output # <<>>
  /\ output[1].content.encrypted
  /\ exportOptions.encrypt
  /\ passphrase # confirmPassphrase

Exports == {k \in 1..Len(returned) : returned[k].fn = "handleExport"}

Previews == {k \in 1..Len(returned) : returned[k].fn = "generatePreview"}

C14_Claimed_HighlightsTrimmed ==
  \A k \in 1..Len(returned) : \A i \in 1..Len(returned[k].records) :
    LET highlights == returned[k].records[i].highlights IN
    /\ Len(highlights) <= (IF k \in Previews THEN 3 ELSE 5)
    /\ \A j \in 1..Len(highlights) :
         highlights[j] # "" /\ highlights[j] = Trim(highlights[j])
    /\ returned[k].records[i].entry = "Hello world. Second sentence."
         => highlights = <<"Hello world", "Second sentence">>

\* The lines of a text.
Lines(text) == Range(Split(text, "\n"))

\* C15: with includeTags off every exported record has no tags and the
\* markdown and plain text hold no "**Tags:**" and no "Tags:"; with it on
\* every record has its entry's tags, and an entry tagged "Work" alone gives
\* the markdown line "**Tags:** Work" and the plain-text line "Tags: Work".
C15_TagsOnlyIfIncluded ==
  \A k \in Exports :
    LET r == returned[k] IN
    /\ ~args.options.includeTags
         => /\ \A i \in 1..Len(r.records) : r.records[i].tags = <<>>
            /\ args.options.format = "json"
                 => \A i \in 1..Len(r.records) :
                      Includes(r.text, "\"tags\": []")
            /\ args.options.format # "json"
                 => ~Includes(r.text, "Tags:")
    /\ args.options.includeTags
         => /\ \A i \in 1..Len(r.records) :
                 r.records[i].tags = args.selected[i].tags
            /\ (\E i \in 1..Len(args.selected) : args.selected[i].tags = <<"Work">>)
                 => /\ args.options.format = "markdown"
                         => "**Tags:** Work" \in Lines(r.text)
                    /\ args.options.format = "text"
                         => "Tags: Work" \in Lines(r.text)

\* A tagged entry exported as markdown with includeTags off.
C15_Witness ==
  \E k \in Exports :
    /\ ~args.options.includeTags
    /\ args.options.format = "markdown"
    /\ \E i \in 1..Len(args.selected) : args.selected[i].tags # <<>>
    /\ ~Includes(returned[k].text, "Tags:")

\* C16: an exported record has an audio member only if includeAudio is set
\* and its entry has an audio blob; the record of any other entry has none,
\* its JSON has no "audio" member and its markdown and plain text have no
\* audio marker.
C16_AudioOnlyIfIncludedAndPresent ==
  \A k \in Exports : \A i \in 1..Len(returned[k].records) :
    LET data == returned[k].records[i]
        entry == args.selected[i]
    IN /\ data.audio # <<>>
            => args.options.includeAudio /\ entry.audioBlob # <<>>
       /\ ~(args.options.includeAudio /\ entry.audioBlob # <<>>)
            => /\ data.audio = <<>>
               /\ ~Includes(JsonExportData(data), "\"audio\"")
               /\ ~Includes(MarkdownOf(data), "[Audio data included]")
               /\ ~Includes(PlainTextOf(data), "Audio:")
       /\ Converted(args.selected, args.options) = {}
            => /\ ~Includes(returned[k].text, "\"audio\"")
               /\ ~Includes(returned[k].text, "[Audio data included]")
               /\ ~Includes(returned[k].text, "Audio:")

\* Entries with audio exported with includeAudio off.
C16_Witness ==
  \E k \in Exports :
    /\ ~args.options.includeAudio
    /\ \E i \in 1..Len(args.selected) : args.selected[i].audioBlob # <<>>
    /\ \A i \in 1..Len(returned[k].records) : returned[k].records[i].audio = <<>>

\* C17: the exported content is application/json with a name ending in .json
\* for json, text/markdown and .md for markdown, text/plain and .txt for
\* text; encrypted, it is application/json with a name ending in
\* .encrypted.json, and the envelope's format is the format of the options.
C17_TypeAndNameFollowOptions ==
  \A k \in Exports :
    LET content == returned[k].content IN
    IF args.options.encrypt /\ args.passphrase # ""
      THEN /\ content.encrypted
           /\ content.mimeType = "application/json"
           /\ EndsWith(content.filename, ".encrypted.json")
           /\ ~EndsWith(content.filename, ".json.encrypted.json")
           /\ Len(content.envelope) = 1
           /\ content.envelope[1].format = args.options.format
      ELSE /\ ~content.encrypted
           /\ args.options.format = "json"
                => content.mimeType = "application/json"
                   /\ EndsWith(content.filename, ".json")
                   /\ ~EndsWith(content.filename, ".encrypted.json")
           /\ args.options.format = "markdown"
                => content.mimeType = "text/markdown"
                   /\ EndsWith(content.filename, ".md")
           /\ args.options.format = "text"
                => content.mimeType = "text/plain"
                   /\ EndsWith(content.filename, ".txt")

\* An encrypted export of markdown.
C17_Witness ==
  \E k \in Exports :
    /\ returned[k].content.encrypted
    /\ args.options.format = "markdown"
    /\ returned[k].content.envelope[1].format = "markdown"

\* The suffix of a preview of n selected entries.
MoreSuffix(n) == "\n... and " \o ToString(n - 3) \o " more entries"

\* The preview text is the rendering of the first 3 selected entries, with
\* the suffix exactly when more than 3 are selected.
RendersFirstThree(r) ==
  LET n == Len(args.selected) IN
  /\ Len(r.records) = (IF n < 3 THEN n ELSE 3)
  /\ \A i \in 1..Len(r.records) : r.records[i].entry = args.selected[i].content
  /\ n > 3 => /\ r.text = Render(r.records, args.options.format) \o MoreSuffix(n)
              /\ \A i \in 4..n :
                   ~Includes(r.text, Split(ToISOString(args.selected[i].timestamp), "T")[1])
  /\ n <= 3 => /\ r.text = Render(r.records, args.options.format)
               /\ ~Includes(r.text, "more entries")

\* C18 as claimed: every preview of selected entries renders the first 3 and
\* has the suffix exactly when more than 3 are selected.
C18_Claimed_PreviewFirstThree ==
  \A k \in Previews : Len(args.selected) > 0 => RendersFirstThree(returned[k])

\* C18, amended: a preview of selected entries renders the first 3 and has
\* the suffix exactly when more than 3 are selected, unless the encrypt
\* option is on with a non-empty passphrase: the preview is then the fixed
\* text "[Encrypted export - preview not available]", without entries and
\* without suffix.
C18_PreviewFirstThree ==
  \A k \in Previews :
    Len(args.selected) > 0
      => IF args.options.encrypt /\ args.passphrase # ""
           THEN returned[k].text = "[Encrypted export - preview not available]"
           ELSE RendersFirstThree(returned[k])

\* A preview of more than 3 selected entries, with its suffix.
C18_Witness ==
  \E k \in Previews :
    /\ Len(args.selected) > 3
    /\ ~args.options.encrypt
    /\ EndsWith(returned[k].text, MoreSuffix(Len(args.selected)))

\* An entry with something in it: text or an audio payload.
NotEmpty(entry) == entry.content # "" \/ entry.audioBlob # <<>>

\* C19: handleSave called for a create or an edit whose trimmed content is
\* empty and which has no audio blob raises "Nothing to save" and makes no
\* storage call and no change to the form (a step either has that outcome or
\* is no such call); so every entry the pages hand to
\* journalDB.save or update, and every entry in the store, has non-empty
\* content or an audio blob.
C19_NoEmptyEntrySaved ==
  /\ [][\/ /\ toast' = "Nothing to save"
             /\ UNCHANGED <<dbVars, journalVars>>
          \/ \A content \in {text \in FormContents : Trim(text) = ""} :
               \A c \in Slots, id \in Ids, tags \in FormTags,
                  transcribeAfterSave \in BOOLEAN, now \in Times :
                 ~HandleSave(c, id, content, tags, <<>>, transcribeAfterSave, now)]_vars
  /\ [](\A c \in Slots : calls[c].op = "save" => NotEmpty(calls[c].entry[1]))
  /\ [](saveJob.pc # "idle" => NotEmpty(saveJob.draft[1]))
  /\ [](\A r \in objectStore : NotEmpty(r))

\* handleSave has refused an empty form while the store holds a voice note
\* without text that the form wrote.
C19_Witness ==
  /\ toast = "Nothing to save"
  /\ \E r \in objectStore : r.content = "" /\ r.audioBlob # <<>>
  /\ \A c \in Slots : calls[c].pc = "idle"

\* The write that call c has pending is the write-back of an edit or of a
\* summary.
IsEditWrite(c) == saveJob.pc = "saving" /\ saveJob.editing /\ saveJob.slot = c

IsSummaryWrite(c) ==
  \E id \in Ids : summaryJobs[id].pc = "updating" /\ summaryJobs[id].slot = c

\* The put of an edit or of a summary is carried out by the store.
WritesBack(c) ==
  /\ IsEditWrite(c) \/ IsSummaryWrite(c)
  /\ IsNext(c, "save")
  /\ calls'[c].pc = "resolved"

\* The fields an edit, or a summary, leaves as they were in old.
FrameKept(c, old, new) ==
  /\ new.id = old.id
  /\ new.createdAt = old.createdAt
  /\ new.timestamp = old.timestamp
  /\ new.transcript = old.transcript
  /\ IsEditWrite(c) => new.summary = old.summary
  /\ IsSummaryWrite(c) =>
       /\ new.content = old.content
       /\ new.tags = old.tags
       /\ new.audioBlob = old.audioBlob
       /\ new.summary # <<>>

\* C20 as claimed: the write-back of an edit or of a summary replaces the
\* stored entry of the same id, so the number of stored entries is unchanged,
\* and changes only content, tags and audio (edit) or the summary
\* (summarise) besides updatedAt; createdAt and timestamp are kept.
C20_Claimed_WriteBackKeepsIdAndCount ==
  [][\A c \in Slots : WritesBack(c) =>
       /\ Cardinality(objectStore') = Cardinality(objectStore)
       /\ \E old \in objectStore :
            /\ old.id = calls[c].entry[1].id
            /\ calls[c].entry[1] \in objectStore'
            /\ FrameKept(c, old, calls[c].entry[1])]_vars

\* The rest of C20, with the entry still in the store when the write-back
\* is carried out.
C20_FrameWhileStored ==
  [][\A c \in Slots : \A old \in objectStore :
       (WritesBack(c) /\ old.id = calls[c].entry[1].id) =>
         /\ Cardinality(objectStore') = Cardinality(objectStore)
         /\ calls[c].entry[1] \in objectStore'
         /\ FrameKept(c, old, calls[c].entry[1])]_vars

\* No tag occurs twice in the list.
Distinct(list) == \A i, j \in 1..Len(list) : list[i] = list[j] => i = j

\* C21: after any sequence of typing, Enter, comma, Backspace, quick-tag and
\* remove actions the tags are pairwise distinct, trimmed and non-empty;
\* addTag of a tag whose trimmed form is already there changes nothing; and
\* every change of the list either appends one new tag at the end or
\* removes tags from it.
C21_TagsDistinctTrimmedNonEmpty ==
  /\ [](/\ Distinct(tagInput.tags)
        /\ \A i \in 1..Len(tagInput.tags) :
             tagInput.tags[i] # "" /\ Trim(tagInput.tags[i]) = tagInput.tags[i])
  /\ [][\A key \in {"Enter", ","} :
          (Trim(tagInput.inputValue) \in Range(tagInput.tags) /\ KeyDown(key))
            => tagInput' = tagInput]_vars
  /\ [][tagInput'.tags # tagInput.tags =>
          \/ /\ Len(tagInput'.tags) = Len(tagInput.tags) + 1
             /\ SubSeq(tagInput'.tags, 1, Len(tagInput.tags)) = tagInput.tags
             /\ tagInput'.tags[Len(tagInput'.tags)] \notin Range(tagInput.tags)
          \/ \E t \in Range(tagInput.tags) :
               tagInput'.tags = SelectSeq(tagInput.tags, LAMBDA u : u # t)]_vars

\* Enter is about to be pressed on " Work " while Work is a tag already,
\* after another tag was added behind it.
C21_Witness ==
  /\ tagInput.inputValue = " Work "
  /\ Len(tagInput.tags) = 2
  /\ tagInput.tags[1] = "Work"
  /\ tagInput.tags[2] = "work"

\* The items of the array the object holds under the key, else none.
ArrayUnder(v, key) ==
  IF key \in DOMAIN v.members /\ v.members[key].type = "array"
    THEN v.members[key].items ELSE <<>>

\* C22: when the reply is the text of a JSON object, with or without white
\* space around it, summariseEntry does not throw, whichever keys are
\* missing or hold a value of another type: each list of the summary is the
\* array the object holds under that key or else empty, and mood is the
\* string it holds or else 'neutral'.
C22_MissingKeysDefaulted ==
  \A v \in JsonObjects :
    (/\ returned # <<>>
     /\ args[1].apiKey # <<>>
     /\ args[1].network.kind = "ok"
     /\ args[1].network.content \in {<<JsonTexts[v]>>, <<" " \o JsonTexts[v] \o "\n">>})
      => /\ ~returned[1].threw
         /\ \A key \in {"highlights", "decisions", "actions", "risks"} :
              returned[1].summary[key] = ArrayUnder(v, key)
         /\ returned[1].summary.mood =
              IF "mood" \in DOMAIN v.members /\ v.members["mood"].type = "string"
                THEN v.members["mood"].text ELSE "neutral"

\* A reply with highlights only, and risks given as a string, was parsed.
C22_Witness ==
  /\ returned # <<>>
  /\ args[1].apiKey # <<>>
  /\ args[1].network.kind = "ok"
  /\ args[1].network.content = <<"{\"highlights\":[\"insight\"],\"risks\":\"calm\"}">>
  /\ returned[1].summary.highlights = <<"insight">>
  /\ returned[1].summary.mood = "neutral"

\* The network's answer is a failure of the summary generation: no answer,
\* a non-success status, or a completion that is not the text of a JSON
\* object.
IsFailure(network) ==
  \/ network.kind # "ok"
  \/ network.content = <<>>
  \/ \A v \in JsonObjects : network.content[1] # JsonTexts[v]

Failures == {n \in TimelineNetworks : IsFailure(n)}

C26_Claimed_DeletedStaysDeleted ==
  [][\A id \in Ids :
       id \notin IdsOf(objectStore) => id \notin IdsOf(objectStore')]_vars

\* The continuation of handleDelete runs after journalDB.delete settled.
DeleteSettles(outcome) ==
  /\ deleteJob.pc = "deleting"
  /\ deleteJob'.pc = "idle"
  /\ calls[deleteJob.slot].pc = outcome

\* C27: when journalDB.delete has resolved, handleDelete takes the entry,
\* and nothing else, out of the displayed list, the other entries keeping
\* their order and content; the store's delete removes that entry only; when
\* the delete is rejected, or confirm() is declined, the displayed list and
\* the store are left as they are.
C27_ListFollowsDelete ==
  /\ [][DeleteSettles("resolved") =>
          /\ \A e \in Range(timelineEntries') : e.id # deleteJob.id[1]
          /\ \E gone \in SUBSET (1..Len(timelineEntries)) :
               /\ \A i \in 1..Len(timelineEntries) :
                    i \in gone <=> timelineEntries[i].id = deleteJob.id[1]
               /\ Len(timelineEntries') = Len(timelineEntries) - Cardinality(gone)
               /\ \A i \in 1..Len(timelineEntries) \ gone :
                    timelineEntries'[i - Cardinality({j \in gone : j < i})]
                      = timelineEntries[i]
          /\ toast' = "Entry deleted"
          /\ UNCHANGED objectStore]_vars
  /\ [][DeleteSettles("rejected") =>
          /\ UNCHANGED <<timelineEntries, objectStore>>
          /\ toast' = "Delete failed"]_vars
  /\ [][\A c \in Slots :
          (calls[c].op = "delete" /\ InFlight(c) /\ calls[c].pc # calls'[c].pc) =>
            /\ UNCHANGED timelineEntries
            /\ IF calls'[c].pc = "resolved"
                 THEN objectStore' = {r \in objectStore : r.id # calls[c].id[1]}
                 ELSE UNCHANGED objectStore]_vars
  /\ [][\A c \in Slots, i \in 1..MaxIds :
          HandleDelete(c, i, FALSE) =>
            UNCHANGED <<timelineEntries, objectStore, calls, txQueue, openQueue>>]_vars

\* The first of two displayed entries was deleted; the other is displayed
\* and stored as before.
C27_Witness ==
  /\ toast = "Entry deleted"
  /\ deleteJob.pc = "idle"
  /\ Len(timelineEntries) = 1
  /\ IdsOf(objectStore) = {timelineEntries[1].id}
  /\ timelineEntries[1] \in objectStore

\* ---------------------------------------------------------------- C29
\* C29 (as claimed): whenever the selection of the open dialog becomes
\* empty, by "Deselect All" or by unchecking the last entry, the preview
\* shows 'No entries selected for export'.
C29_Claimed_EmptySelectionShowsMessage ==
  [][(/\ isOpen /\ isOpen'
      /\ Len(selectedEntries) > 0
      /\ Len(selectedEntries') = 0)
       => preview' = "No entries selected for export"]_vars

\* ---------------------------------------------------------------- C30
\* The previews generatePreview can show of the dialog's selection, options
\* and passphrase as they are now.
CurrentPreviews ==
  {PreviewText(SelectedEntriesData, exportOptions, passphrase, failed) :
     failed \in SUBSET Ids}

\* C30 (as claimed): once no loadEntries and no generatePreview call is
\* pending, the preview of a non-empty selection is the one of the current
\* selection, options and passphrase.
C30_Claimed_PreviewIsCurrent ==
  (/\ isOpen
   /\ loadsPending = 0
   /\ previewJobs = {}
   /\ Len(selectedEntries) > 0)
    => preview \in CurrentPreviews

\* ---------------------------------------------------------------- C28
\* The step is a press of Clear on a non-empty input: the input is emptied
\* and handleSaveApiKey has raised its toast.
PressesClear ==
  /\ settings.apiKey # ""
  /\ settings'.apiKey = ""
  /\ toast' \in {"API Key saved", "API Key cleared"}

\* C28 (as claimed): pressing Clear removes the stored OPENAI_API_KEY,
\* whatever key was stored or typed before.
C28_Claimed_ClearRemovesKey ==
  [][PressesClear => localStorage' = <<>>]_vars

\* C28, the Save Key button (holds): a press with a non-blank input stores
\* the trimmed input, a press with a blank input removes the stored key.
C28_SaveKeyStoresTrimmed ==
  [][(/\ settings' = settings
      /\ dbVars' = dbVars
      /\ toast' \in {"API Key saved", "API Key cleared"})
       => localStorage' = IF Trim(settings.apiKey) # ""
                            THEN <<Trim(settings.apiKey)>>
                            ELSE <<>>]_vars

\* ---------------------------------------------------------------- C24
\* The transcript transcribeAudio returns when no API key is stored.
TranscriptionNotice ==
  "Transcription not available - add OpenAI API key in Settings to enable auto-transcription."

\* C24: with no API key stored, transcription, the summary of an entry and
\* the GPT weekly digest each end in their handler without a request to the
\* network: the transcription gives its notice and the entry is written
\* with it, the summary and the digest end in their toast with the busy flag
\* cleared and nothing written; a new entry saved with "transcribe after
\* save" is stored.
C24_NoKeyDegrades ==
  /\ [][(/\ localStorage = <<>>
          /\ saveJob.pc = "transcribing"
          /\ saveJob'.pc # "transcribing")
           => /\ requests' = 0
              /\ saveJob'.pc = "saving"
              /\ saveJob'.draft[1].transcript = <<TranscriptionNotice>>
              /\ calls'[saveJob'.slot].op = "save"
              /\ calls'[saveJob'.slot].entry = saveJob'.draft]_vars
  /\ [][\A id \in Ids :
          (/\ localStorage = <<>>
           /\ summaryJobs[id].pc = "summarising"
           /\ summaryJobs'[id].pc # "summarising")
            => /\ requests' = 0
               /\ toast' = "Summarization failed: Failed to summarize entry - check your API key and connection"
               /\ summaryJobs'[id] = NoSummaryJob
               /\ id \notin summarizingEntries'
               /\ UNCHANGED dbVars]_vars
  /\ [][(/\ localStorage = <<>>
          /\ settings.digestJob.pc = "compiling"
          /\ settings'.digestJob.pc # "compiling")
           => /\ requests' = 0
              /\ toast' = "GPT Digest failed: Failed to generate weekly digest - check your API key and connection"
              /\ ~settings'.gptDigestLoading
              /\ settings'.gptDigest = settings.gptDigest
              /\ UNCHANGED dbVars]_vars
  /\ [](/\ localStorage = <<>>
         /\ saveJob.pc = "saving"
         /\ ~saveJob.editing
         /\ calls[saveJob.slot].pc = "resolved"
          => \E r \in objectStore : /\ r.id = saveJob.draft[1].id
                                    /\ r.transcript = saveJob.draft[1].transcript)

\* With no key stored, an entry saved with "transcribe after save" is stored
\* with the notice as its transcript, and the GPT digest of Settings has just
\* ended in its toast, without a request.
C24_Witness ==
  /\ localStorage = <<>>
  /\ \E r \in objectStore : r.transcript = <<TranscriptionNotice>>
  /\ page = "settings"
  /\ toast = "GPT Digest failed: Failed to generate weekly digest - check your API key and connection"
  /\ requests = 0
  /\ ~settings.gptDigestLoading

\* ---------------------------------------------------------------- C25
\* C25: every busy flag that a handler has set is cleared again: isSaving
\* of the form, the membership of an entry in summarizingEntries, loading
\* of the dialog (set by loadEntries and by handleExport), loading and
\* clearing of Settings, and the load of a page's entries.
C25_BusyFlagsCleared ==
  /\ isSaving ~> ~isSaving
  /\ \A id \in Ids : (id \in summarizingEntries) ~> (id \notin summarizingEntries)
  /\ loading ~> ~loading
  /\ (page = "settings" /\ settings.loading) ~> (page = "settings" /\ ~settings.loading)
  /\ settings.clearing ~> ~settings.clearing
  /\ (pageLoad.pc = "loading") ~> (pageLoad.pc = "idle")

\* A write of handleSave was rejected and the form is usable again.
C25_Witness ==
  /\ toast = "Save failed"
  /\ ~isSaving
  /\ saveJob = NoSave

====
